---- MODULE Spec2Model ----
(***************************************************************************)
(* Model of the Grapher expression engine                                  *)
(* (src/backend/src/backend/core/math_engine.py).                          *)
(*                                                                         *)
(* Expression texts are sequences of one-character strings, so that the    *)
(* regular-expression rewrites and the textual denylist of the engine act  *)
(* on characters exactly as in the source.  Python's re and ast modules    *)
(* and the numexpr evaluator are modelled by the operators of the first    *)
(* sections; the engine's own methods follow, one operator per method,     *)
(* and the state machine applies one engine method to an input drawn in    *)
(* Init.                                                                   *)
(***************************************************************************)
EXTENDS Integers, Sequences, FiniteSets, TLC

(***************************************************************************)
(* Characters                                                              *)
(***************************************************************************)
LowerSeq ==
  <<"a","b","c","d","e","f","g","h","i","j","k","l","m",
    "n","o","p","q","r","s","t","u","v","w","x","y","z">>

UpperSeq ==
  <<"A","B","C","D","E","F","G","H","I","J","K","L","M",
    "N","O","P","Q","R","S","T","U","V","W","X","Y","Z">>

DigitSeq ==
  <<"0","1","2","3","4","5","6","7","8","9">>

Range(f) ==
  { f[i] : i \in DOMAIN f }

Lower ==
  Range(LowerSeq)

Upper ==
  Range(UpperSeq)

Digits ==
  Range(DigitSeq)

SpaceChars ==
  {" ", "\t", "\n", "\r"}

IsAlpha(c) ==
  c \in Lower \/ c \in Upper

IsDigit(c) ==
  c \in Digits

IsWord(c) ==
  IsAlpha(c) \/ IsDigit(c) \/ c = "_"

IsSpace(c) ==
  c \in SpaceChars

\* str.lower() on one character (the effect of re.IGNORECASE on a comparison)
LowerChar(c) ==
  IF c \in Upper
    THEN LowerSeq[CHOOSE i \in 1..26 : UpperSeq[i] = c]
    ELSE c

\* value of a decimal digit
DigitVal(c) ==
  (CHOOSE i \in 1..10 : DigitSeq[i] = c) - 1

(***************************************************************************)
(* Python's re module: patterns are sequences of atoms.                    *)
(*   lit  a literal text            cls  one character of a class,         *)
(*   nla  negative lookahead             with quantifier "1", "*", "+"     *)
(*   nlb  negative lookbehind            or "?"                            *)
(*   wb   the word boundary \b      eos  the end of the text ($)           *)
(*   go / gc  opening and closing parenthesis of capture group g           *)
(***************************************************************************)
Lit(s) ==
  [t |-> "lit", s |-> s, c |-> "", q |-> "1", g |-> 0]

Cls(c, q) ==
  [t |-> "cls", s |-> <<>>, c |-> c, q |-> q, g |-> 0]

NLA(c) ==
  [t |-> "nla", s |-> <<>>, c |-> c, q |-> "1", g |-> 0]

NLB(c) ==
  [t |-> "nlb", s |-> <<>>, c |-> c, q |-> "1", g |-> 0]

WB ==
  [t |-> "wb", s |-> <<>>, c |-> "", q |-> "1", g |-> 0]

EOS ==
  [t |-> "eos", s |-> <<>>, c |-> "", q |-> "1", g |-> 0]

GO(g) ==
  [t |-> "go", s |-> <<>>, c |-> "", q |-> "1", g |-> g]

GC(g) ==
  [t |-> "gc", s |-> <<>>, c |-> "", q |-> "1", g |-> g]

\* membership of a character in a regex character class
InClass(c, ch) ==
  CASE c = "alpha"   -> IsAlpha(ch)          \* [a-zA-Z]
    [] c = "digit"   -> IsDigit(ch)          \* \d
    [] c = "word"    -> IsWord(ch)           \* \w
    [] c = "space"   -> IsSpace(ch)          \* \s
    [] c = "any"     -> ch # "\n"            \* .
    [] c = "notrpar" -> ch # ")"             \* [^)]
    [] c = "notrbrc" -> ch # "}"             \* [^}]
    [] c = "lparen"  -> ch = "("             \* \(
    [] c = "xy"      -> ch \in {"x", "y"}     \* [xy]
    [] c = "minus"   -> ch = "-"             \* -
    [] OTHER         -> FALSE

NoCaps ==
  [g \in 1..3 |-> <<0, 0>>]

NoMatch ==
  [ok |-> FALSE, end |-> 0, caps |-> NoCaps]

\* does the literal lit occur in s at position pos (ic: ignoring case)
LitAt(lit, s, pos, ic) ==
  /\ pos + Len(lit) - 1 <= Len(s)
  /\ \A i \in 1..Len(lit) :
       IF ic THEN LowerChar(s[pos + i - 1]) = LowerChar(lit[i])
             ELSE s[pos + i - 1] = lit[i]

\* length of the longest run of class-c characters of s starting at pos
RECURSIVE RunLen(_, _, _)
RunLen(c, s, pos) ==
  IF pos <= Len(s) /\ InClass(c, s[pos])
    THEN 1 + RunLen(c, s, pos + 1)
    ELSE 0

\* re.match of atoms k.. of pat at position pos of s: the first match in
\* the order of a backtracking matcher (quantifiers are greedy)
RECURSIVE MatchAt(_, _, _, _, _, _)
RECURSIVE MatchRun(_, _, _, _, _, _, _, _)
MatchAt(pat, k, s, pos, caps, ic) ==
  IF k > Len(pat)
    THEN [ok |-> TRUE, end |-> pos, caps |-> caps]
    ELSE LET a == pat[k] IN
      CASE a.t = "lit" ->
             IF LitAt(a.s, s, pos, ic)
               THEN MatchAt(pat, k + 1, s, pos + Len(a.s), caps, ic)
               ELSE NoMatch
        [] a.t = "cls" /\ a.q = "1" ->
             IF pos <= Len(s) /\ InClass(a.c, s[pos])
               THEN MatchAt(pat, k + 1, s, pos + 1, caps, ic)
               ELSE NoMatch
        [] a.t = "cls" /\ a.q = "*" ->
             MatchRun(pat, k, s, pos, caps, ic, RunLen(a.c, s, pos), 0)
        [] a.t = "cls" /\ a.q = "+" ->
             MatchRun(pat, k, s, pos, caps, ic, RunLen(a.c, s, pos), 1)
        [] a.t = "cls" /\ a.q = "?" ->
             MatchRun(pat, k, s, pos, caps, ic,
                      IF pos <= Len(s) /\ InClass(a.c, s[pos]) THEN 1 ELSE 0, 0)
        [] a.t = "eos" ->
             IF pos > Len(s)
               THEN MatchAt(pat, k + 1, s, pos, caps, ic)
               ELSE NoMatch
        [] a.t = "nla" ->
             IF pos <= Len(s) /\ InClass(a.c, s[pos])
               THEN NoMatch
               ELSE MatchAt(pat, k + 1, s, pos, caps, ic)
        [] a.t = "nlb" ->
             IF pos > 1 /\ InClass(a.c, s[pos - 1])
               THEN NoMatch
               ELSE MatchAt(pat, k + 1, s, pos, caps, ic)
        [] a.t = "wb" ->
             IF (pos > 1 /\ IsWord(s[pos - 1])) # (pos <= Len(s) /\ IsWord(s[pos]))
               THEN MatchAt(pat, k + 1, s, pos, caps, ic)
               ELSE NoMatch
        [] a.t = "go" ->
             MatchAt(pat, k + 1, s, pos, [caps EXCEPT ![a.g] = <<pos, pos>>], ic)
        [] a.t = "gc" ->
             MatchAt(pat, k + 1, s, pos, [caps EXCEPT ![a.g] = <<caps[a.g][1], pos>>], ic)
        [] OTHER -> NoMatch

MatchRun(pat, k, s, pos, caps, ic, n, min) ==
  IF n < min
    THEN NoMatch
    ELSE LET r == MatchAt(pat, k + 1, s, pos + n, caps, ic) IN
         IF r.ok THEN r ELSE MatchRun(pat, k, s, pos, caps, ic, n - 1, min)

\* re.search(pat, s) is not None
ReSearch(pat, s, ic) ==
  \E pos \in 1..(Len(s) + 1) : MatchAt(pat, 1, s, pos, NoCaps, ic).ok

\* the first match of re.search(pat, s), scanning from the left
ReFirst(pat, s, ic) ==
  IF ReSearch(pat, s, ic)
    THEN MatchAt(pat, 1, s,
                 CHOOSE pos \in 1..(Len(s) + 1) :
                   /\ MatchAt(pat, 1, s, pos, NoCaps, ic).ok
                   /\ \A q \in 1..(pos - 1) : ~MatchAt(pat, 1, s, q, NoCaps, ic).ok,
                 NoCaps, ic)
    ELSE NoMatch

\* replacement templates: literal texts and group references \g
RLit(s) ==
  [t |-> "lit", s |-> s, g |-> 0]

RGrp(g) ==
  [t |-> "grp", s |-> <<>>, g |-> g]

RECURSIVE Expand(_, _, _, _)
Expand(repl, i, s, caps) ==
  IF i > Len(repl)
    THEN <<>>
    ELSE (IF repl[i].t = "lit"
            THEN repl[i].s
            ELSE SubSeq(s, caps[repl[i].g][1], caps[repl[i].g][2] - 1))
         \o Expand(repl, i + 1, s, caps)

\* re.sub(pat, repl, s): leftmost non-overlapping matches, left to right
\* (no pattern of the engine matches the empty text)
RECURSIVE SubFrom(_, _, _, _)
SubFrom(pat, repl, s, pos) ==
  IF pos > Len(s)
    THEN <<>>
    ELSE LET r == MatchAt(pat, 1, s, pos, NoCaps, FALSE) IN
         IF r.ok /\ r.end > pos
           THEN Expand(repl, 1, s, r.caps) \o SubFrom(pat, repl, s, r.end)
           ELSE <<s[pos]>> \o SubFrom(pat, repl, s, pos + 1)

ReSub(pat, repl, s) ==
  SubFrom(pat, repl, s, 1)

\* str.replace(old, new)
StrReplace(s, old, new) ==
  ReSub(<<Lit(old)>>, <<RLit(new)>>, s)

\* old in s
Contains(s, old) ==
  \E pos \in 1..(Len(s) - Len(old) + 1) : LitAt(old, s, pos, FALSE)

\* s.strip()
RECURSIVE LStrip(_)
LStrip(s) ==
  IF s # <<>> /\ IsSpace(Head(s)) THEN LStrip(Tail(s)) ELSE s

RECURSIVE RStrip(_)
RStrip(s) ==
  IF s # <<>> /\ IsSpace(s[Len(s)]) THEN RStrip(SubSeq(s, 1, Len(s) - 1)) ELSE s

Strip(s) ==
  LStrip(RStrip(s))

(***************************************************************************)
(* Python's ast.parse(text, mode='eval'): tokens.                          *)
(* Characters the engine's inputs never use in this development (quotes,   *)
(* brackets, '.', ':', '&', '|', '~', '@', line breaks) give an error      *)
(* token; the keyword operators (and, or, not, in, is, if/else, lambda)    *)
(* are recognised as keywords and not parsed; numbers are decimal integer  *)
(* literals (no 0x, 0o, 0b, exponent or imaginary forms).                  *)
(***************************************************************************)
Keywords ==
  { <<"a","n","d">>, <<"a","s">>, <<"i","f">>, <<"i","n">>, <<"i","s">>,
    <<"o","r">>, <<"n","o","t">>, <<"f","o","r">>, <<"d","e","f">>,
    <<"d","e","l">>, <<"t","r","y">>, <<"e","l","s","e">>, <<"e","l","i","f">>,
    <<"f","r","o","m">>, <<"p","a","s","s">>, <<"w","i","t","h">>,
    <<"N","o","n","e">>, <<"T","r","u","e">>, <<"F","a","l","s","e">>,
    <<"i","m","p","o","r","t">>, <<"l","a","m","b","d","a">> }

TwoCharOps ==
  { <<"*","*">>, <<"/","/">>, <<"<","=">>, <<">","=">>, <<"=","=">>,
    <<"!","=">>, <<"<","<">>, <<">",">">> }

OneCharOps ==
  {"+", "-", "*", "/", "%", "^", "<", ">", "=", "(", ")", ","}

\* length of the decimal literal starting at pos: digits, single '_' between
RECURSIVE NumLen(_, _)
NumLen(s, pos) ==
  LET n == RunLen("digit", s, pos) IN
  IF /\ pos + n + 1 <= Len(s)
     /\ s[pos + n] = "_"
     /\ IsDigit(s[pos + n + 1])
    THEN n + 1 + NumLen(s, pos + n + 1)
    ELSE n

\* a decimal literal is malformed when a letter or '_' follows it, or when
\* it has a leading zero and is not zero
BadNumber(s, pos, n) ==
  \/ (pos + n <= Len(s) /\ IsWord(s[pos + n]))
  \/ /\ s[pos] = "0"
     /\ \E i \in pos..(pos + n - 1) : s[i] \notin {"0", "_"}

Token(t, v) ==
  [t |-> t, v |-> v]

RECURSIVE Tokenize(_, _)
Tokenize(s, pos) ==
  IF pos > Len(s)
    THEN <<>>
    ELSE LET c == s[pos] IN
      CASE c \in {" ", "\t"} -> Tokenize(s, pos + 1)
        [] IsAlpha(c) \/ c = "_" ->
             LET n == RunLen("word", s, pos)
                 id == SubSeq(s, pos, pos + n - 1)
             IN  <<Token(IF id \in Keywords THEN "kw" ELSE "name", id)>>
                   \o Tokenize(s, pos + n)
        [] IsDigit(c) ->
             LET n == NumLen(s, pos) IN
             IF BadNumber(s, pos, n)
               THEN <<Token("err", <<c>>)>>
               ELSE <<Token("num", SubSeq(s, pos, pos + n - 1))>>
                      \o Tokenize(s, pos + n)
        [] pos < Len(s) /\ <<c, s[pos + 1]>> \in TwoCharOps ->
             <<Token("op", <<c, s[pos + 1]>>)>> \o Tokenize(s, pos + 2)
        [] c \in OneCharOps ->
             <<Token("op", <<c>>)>> \o Tokenize(s, pos + 1)
        [] OTHER -> <<Token("err", <<c>>)>>

(***************************************************************************)
(* Python's ast.parse(text, mode='eval'): the expression grammar           *)
(* (expressions, comparison, '^', shifts, sum, term, factor, power,   *)
(* primary with call trailers, parenthesised groups and tuples).           *)
(* A node is [t: node class, v: identifier or literal text,                *)
(*            o: operator classes, k: child nodes].                        *)
(***************************************************************************)
Node(t, v, o, k) ==
  [t |-> t, v |-> v, o |-> o, k |-> k]

NoNode ==
  Node("None", <<>>, <<>>, <<>>)

ParseFail ==
  [ok |-> FALSE, node |-> NoNode, pos |-> 0]

ParseOk(n, p) ==
  [ok |-> TRUE, node |-> n, pos |-> p]

Tok(ts, p) ==
  IF p <= Len(ts) THEN ts[p] ELSE Token("end", <<>>)

IsOp(ts, p, v) ==
  Tok(ts, p).t = "op" /\ Tok(ts, p).v = v

BinOpName(v) ==
  CASE v = <<"+">> -> "Add"
    [] v = <<"-">> -> "Sub"
    [] v = <<"*">> -> "Mult"
    [] v = <<"/">> -> "Div"
    [] v = <<"/","/">> -> "FloorDiv"
    [] v = <<"%">> -> "Mod"
    [] v = <<"*","*">> -> "Pow"
    [] v = <<"^">> -> "BitXor"
    [] v = <<"<","<">> -> "LShift"
    [] v = <<">",">">> -> "RShift"
    [] v = <<"=","=">> -> "Eq"
    [] v = <<"!","=">> -> "NotEq"
    [] v = <<"<">> -> "Lt"
    [] v = <<"<","=">> -> "LtE"
    [] v = <<">">> -> "Gt"
    [] v = <<">","=">> -> "GtE"
    [] OTHER -> "None"

CompareOps ==
  { <<"=","=">>, <<"!","=">>, <<"<">>, <<"<","=">>, <<">">>, <<">","=">> }

\* the levels of left-associative binary operators, the rule of their
\* operands and their operator tokens
BinaryLevels ==
  { "bitxor", "shift", "sum", "term" }

OperandRule(rule) ==
  CASE rule = "bitxor" -> "shift"
    [] rule = "shift"  -> "sum"
    [] rule = "sum"    -> "term"
    [] OTHER           -> "factor"

LevelOps(rule) ==
  CASE rule = "bitxor" -> { <<"^">> }
    [] rule = "shift"  -> { <<"<","<">>, <<">",">">> }
    [] rule = "sum"    -> { <<"+">>, <<"-">> }
    [] OTHER           -> { <<"*">>, <<"/">>, <<"/","/">>, <<"%">> }

\* what a rule has collected so far: n the left operand or the callee,
\* s and kw the elements, operands or arguments, o the comparison
\* operators, star / seenKw / seenStars the flags of the element lists
NoAcc ==
  [n |-> NoNode, s |-> <<>>, kw |-> <<>>, o |-> <<>>, lvl |-> "",
   star |-> FALSE, seenKw |-> FALSE, seenStars |-> FALSE]

\* the parse of grammar rule `rule` at token p
RECURSIVE Parse(_, _, _, _)
Parse(ts, p, rule, acc) ==
  CASE rule = "expressions" ->
         \* a single expression, or a tuple when a ',' follows
         LET r == Parse(ts, p, "expression", NoAcc) IN
         IF ~r.ok THEN ParseFail
         ELSE IF IsOp(ts, r.pos, <<",">>)
           THEN Parse(ts, r.pos + 1, "elems", [NoAcc EXCEPT !.s = <<r.node>>])
           ELSE r
    [] rule = "elems" ->
         \* the elements after a ',' of a tuple, up to ')' or the end;
         \* starred elements are allowed inside parentheses only
         IF Tok(ts, p).t = "end" \/ IsOp(ts, p, <<")">>)
           THEN ParseOk(Node("Tuple", <<>>, <<>>, acc.s), p)
           ELSE LET r == Parse(ts, p, IF acc.star THEN "star_expression" ELSE "expression", NoAcc) IN
                IF ~r.ok THEN ParseFail
                ELSE IF IsOp(ts, r.pos, <<",">>)
                  THEN Parse(ts, r.pos + 1, "elems", [acc EXCEPT !.s = Append(@, r.node)])
                  ELSE ParseOk(Node("Tuple", <<>>, <<>>, Append(acc.s, r.node)), r.pos)
    [] rule = "star_expression" ->
         \* '*' bitwise_or | expression
         IF IsOp(ts, p, <<"*">>)
           THEN LET r == Parse(ts, p + 1, "bitxor", NoAcc) IN
                IF r.ok THEN ParseOk(Node("Starred", <<>>, <<>>, <<r.node>>), r.pos)
                        ELSE ParseFail
           ELSE Parse(ts, p, "expression", NoAcc)
    [] rule = "expression" ->
         \* no keyword operator is modelled, so it is a comparison
         LET l == Parse(ts, p, "bitxor", NoAcc) IN
         IF ~l.ok THEN ParseFail
         ELSE IF Tok(ts, l.pos).t = "op" /\ Tok(ts, l.pos).v \in CompareOps
           THEN Parse(ts, l.pos, "compare_rest", [NoAcc EXCEPT !.s = <<l.node>>])
           ELSE l
    [] rule = "compare_rest" ->
         IF Tok(ts, p).t = "op" /\ Tok(ts, p).v \in CompareOps
           THEN LET r == Parse(ts, p + 1, "bitxor", NoAcc) IN
                IF ~r.ok THEN ParseFail
                ELSE Parse(ts, r.pos, "compare_rest",
                           [acc EXCEPT !.s = Append(@, r.node),
                                       !.o = Append(@, BinOpName(Tok(ts, p).v))])
           ELSE ParseOk(Node("Compare", <<>>, acc.o, acc.s), p)
    [] rule \in BinaryLevels ->
         LET l == Parse(ts, p, OperandRule(rule), NoAcc) IN
         IF l.ok
           THEN Parse(ts, l.pos, "binary_rest", [NoAcc EXCEPT !.n = l.node, !.lvl = rule])
           ELSE ParseFail
    [] rule = "binary_rest" ->
         IF Tok(ts, p).t = "op" /\ Tok(ts, p).v \in LevelOps(acc.lvl)
           THEN LET r == Parse(ts, p + 1, OperandRule(acc.lvl), NoAcc) IN
                IF ~r.ok THEN ParseFail
                ELSE Parse(ts, r.pos, "binary_rest",
                           [acc EXCEPT !.n = Node("BinOp", <<>>, <<BinOpName(Tok(ts, p).v)>>,
                                                  <<acc.n, r.node>>)])
           ELSE ParseOk(acc.n, p)
    [] rule = "factor" ->
         \* ('+' | '-') factor | power
         IF IsOp(ts, p, <<"+">>) \/ IsOp(ts, p, <<"-">>)
           THEN LET r == Parse(ts, p + 1, "factor", NoAcc) IN
                IF ~r.ok THEN ParseFail
                ELSE ParseOk(Node("UnaryOp", <<>>,
                                  <<IF IsOp(ts, p, <<"+">>) THEN "UAdd" ELSE "USub">>,
                                  <<r.node>>), r.pos)
           ELSE Parse(ts, p, "power", NoAcc)
    [] rule = "power" ->
         \* primary ['**' factor]
         LET l == Parse(ts, p, "primary", NoAcc) IN
         IF ~l.ok THEN ParseFail
         ELSE IF IsOp(ts, l.pos, <<"*","*">>)
           THEN LET r == Parse(ts, l.pos + 1, "factor", NoAcc) IN
                IF ~r.ok THEN ParseFail
                ELSE ParseOk(Node("BinOp", <<>>, <<"Pow">>, <<l.node, r.node>>), r.pos)
           ELSE l
    [] rule = "primary" ->
         LET a == Parse(ts, p, "atom", NoAcc) IN
         IF a.ok THEN Parse(ts, a.pos, "trailers", [NoAcc EXCEPT !.n = a.node])
                 ELSE ParseFail
    [] rule = "trailers" ->
         \* call trailers: primary '(' [arguments] ')'
         IF IsOp(ts, p, <<"(">>)
           THEN LET r == Parse(ts, p + 1, "args", NoAcc) IN
                IF ~r.ok THEN ParseFail
                ELSE Parse(ts, r.pos, "trailers",
                           [NoAcc EXCEPT !.n = Node("Call", <<>>, <<>>, <<acc.n>> \o r.node.k)])
           ELSE ParseOk(acc.n, p)
    [] rule = "args" ->
         \* arguments up to the closing ')': positional, *iterable,
         \* name=value and **mapping; a positional argument may not follow
         \* a keyword argument, nor an *iterable a **mapping
         IF IsOp(ts, p, <<")">>)
           THEN ParseOk(Node("args", <<>>, <<>>, acc.s \o acc.kw), p + 1)
         ELSE LET
             isKw    == Tok(ts, p).t = "name" /\ IsOp(ts, p + 1, <<"=">>)
             isStars == IsOp(ts, p, <<"*","*">>)
             isStar  == IsOp(ts, p, <<"*">>)
             r == Parse(ts, IF isKw THEN p + 2 ELSE IF isStars \/ isStar THEN p + 1 ELSE p,
                        "expression", NoAcc)
             n == IF isKw THEN Node("keyword", Tok(ts, p).v, <<>>, <<r.node>>)
                  ELSE IF isStars THEN Node("keyword", <<>>, <<>>, <<r.node>>)
                  ELSE IF isStar THEN Node("Starred", <<>>, <<>>, <<r.node>>)
                  ELSE r.node
             next == [acc EXCEPT
                        !.s  = IF isKw \/ isStars THEN @ ELSE Append(@, n),
                        !.kw = IF isKw \/ isStars THEN Append(@, n) ELSE @,
                        !.seenKw = @ \/ isKw,
                        !.seenStars = @ \/ isStars]
           IN
             IF ~r.ok THEN ParseFail
             ELSE IF isStar /\ acc.seenStars THEN ParseFail
             ELSE IF ~isKw /\ ~isStars /\ ~isStar /\ (acc.seenKw \/ acc.seenStars) THEN ParseFail
             ELSE IF IsOp(ts, r.pos, <<",">>)
               THEN Parse(ts, r.pos + 1, "args", next)
             ELSE IF IsOp(ts, r.pos, <<")">>)
               THEN ParseOk(Node("args", <<>>, <<>>, next.s \o next.kw), r.pos + 1)
             ELSE ParseFail
    [] OTHER ->
         \* atom: NAME | NUMBER | '(' ')' | '(' expression ')' | '(' tuple ')'
         IF Tok(ts, p).t = "name" THEN ParseOk(Node("Name", Tok(ts, p).v, <<>>, <<>>), p + 1)
         ELSE IF Tok(ts, p).t = "num" THEN ParseOk(Node("Constant", Tok(ts, p).v, <<>>, <<>>), p + 1)
         ELSE IF ~IsOp(ts, p, <<"(">>) THEN ParseFail
         ELSE IF IsOp(ts, p + 1, <<")">>) THEN ParseOk(Node("Tuple", <<>>, <<>>, <<>>), p + 2)
         ELSE LET r == Parse(ts, p + 1, "star_expression", NoAcc) IN
              IF ~r.ok THEN ParseFail
              ELSE IF IsOp(ts, r.pos, <<",">>)
                THEN LET e == Parse(ts, r.pos + 1, "elems",
                                    [NoAcc EXCEPT !.s = <<r.node>>, !.star = TRUE]) IN
                     IF e.ok /\ IsOp(ts, e.pos, <<")">>)
                       THEN ParseOk(e.node, e.pos + 1)
                       ELSE ParseFail
              ELSE IF IsOp(ts, r.pos, <<")">>) /\ r.node.t # "Starred"
                THEN ParseOk(r.node, r.pos + 1)
              ELSE ParseFail

\* the tokens parse when none is an error or a keyword and the rule
\* `expressions` uses them all
ParseTokens(ts, r) ==
  IF ts = <<>> \/ \E i \in 1..Len(ts) : ts[i].t \in {"err", "kw"}
    THEN ParseFail
    ELSE IF r.ok /\ r.pos = Len(ts) + 1 THEN r ELSE ParseFail

\* ast.parse(s, mode='eval'): ok is FALSE where Python raises SyntaxError
\* (IndentationError, its subclass, for leading blanks)
AstParse(s) ==
  IF s = <<>> \/ s[1] \in {" ", "\t"}
    THEN ParseFail
    ELSE ParseTokens(Tokenize(s, 1), Parse(Tokenize(s, 1), 1, "expressions", NoAcc))

\* an operator or context object of the tree (ast.Add(), ast.Load(), ...)
Leaf(t) ==
  Node(t, <<>>, <<>>, <<>>)

\* ast.iter_child_nodes(n): the children in the order of the class's fields
ChildNodes(n) ==
  CASE n.t = "BinOp"   -> <<n.k[1], Leaf(n.o[1]), n.k[2]>>
    [] n.t = "UnaryOp" -> <<Leaf(n.o[1]), n.k[1]>>
    [] n.t = "Compare" -> <<n.k[1]>> \o [i \in 1..Len(n.o) |-> Leaf(n.o[i])] \o Tail(n.k)
    [] n.t = "Name"    -> <<Leaf("Load")>>
    [] n.t \in {"Tuple", "Starred"} -> n.k \o <<Leaf("Load")>>
    [] OTHER -> n.k

\* ast.walk: breadth first from the queued nodes
RECURSIVE Walk(_)
Walk(queue) ==
  IF queue = <<>>
    THEN <<>>
    ELSE <<Head(queue)>> \o Walk(Tail(queue) \o ChildNodes(Head(queue)))

\* the node classes ast.walk yields below the ast.Expression root
WalkTypes(n) ==
  { m.t : m \in Range(Walk(<<n>>)) }

\* the ids of the ast.Name nodes ast.walk(tree) yields
RECURSIVE WalkNames(_)
RECURSIVE WalkNamesSeq(_, _)
WalkNames(n) ==
  (IF n.t = "Name" THEN {n.v} ELSE {}) \cup WalkNamesSeq(n.k, 1)

WalkNamesSeq(k, i) ==
  IF i > Len(k) THEN {} ELSE WalkNames(k[i]) \cup WalkNamesSeq(k, i + 1)

(***************************************************************************)
(* math_engine.py: module tables                                           *)
(***************************************************************************)
\* the keys of MATH_FUNCTIONS, in the order of the dict
MATH_FUNCTIONS ==
  << <<"s","i","n">>,
    <<"c","o","s">>,
    <<"t","a","n">>,
    <<"a","s","i","n">>,
    <<"a","c","o","s">>,
    <<"a","t","a","n">>,
    <<"s","i","n","h">>,
    <<"c","o","s","h">>,
    <<"t","a","n","h">>,
    <<"e","x","p">>,
    <<"l","o","g">>,
    <<"l","o","g","1","0">>,
    <<"l","o","g","2">>,
    <<"s","q","r","t">>,
    <<"a","b","s">>,
    <<"f","l","o","o","r">>,
    <<"c","e","i","l">>,
    <<"r","o","u","n","d">>,
    <<"s","i","g","n">> >>

\* the keys of MATH_CONSTANTS
MATH_CONSTANTS ==
  << <<"p","i">>,
    <<"e">>,
    <<"t","a","u">> >>

\* the list function_names of add_implicit_multiplication
function_names ==
  << <<"s","i","n">>,
    <<"c","o","s">>,
    <<"t","a","n">>,
    <<"l","o","g">>,
    <<"e","x","p">>,
    <<"s","q","r","t">>,
    <<"a","b","s">>,
    <<"a","s","i","n">>,
    <<"a","c","o","s">>,
    <<"a","t","a","n">>,
    <<"s","i","n","h">>,
    <<"c","o","s","h">>,
    <<"t","a","n","h">>,
    <<"l","o","g","1","0">>,
    <<"l","o","g","2">>,
    <<"f","l","o","o","r">>,
    <<"c","e","i","l">>,
    <<"r","o","u","n","d">>,
    <<"s","i","g","n">> >>

\* ExpressionParser.html_entity_mapping: <<entity, replacement>>, in order
html_entity_mapping ==
  << <<<<"&","s","u","p","2",";">>, <<"^","2">>>>,
    <<<<"&","s","u","p","3",";">>, <<"^","3">>>>,
    <<<<"&","s","d","o","t",";">>, <<"*">>>>,
    <<<<"&","t","i","m","e","s",";">>, <<"*">>>>,
    <<<<"&","d","i","v","i","d","e",";">>, <<"/">>>>,
    <<<<"&","l","e",";">>, <<"<","=">>>>,
    <<<<"&","g","e",";">>, <<">","=">>>>,
    <<<<"&","n","e",";">>, <<"!","=">>>>,
    <<<<"&","a","p","p","r","o","x",";">>, <<"~","=">>>>,
    <<<<"&","p","i",";">>, <<"p","i">>>>,
    <<<<"&","i","n","f","i","n",";">>, <<"i","n","f">>>> >>

\* ExpressionParser.latex_mapping: <<pattern, replacement template>>, in order
latex_mapping ==
  << <<  << Lit(<<"\\","f","r","a","c","{">>), GO(1), Cls("notrbrc", "+"), GC(1), Lit(<<"}","{">>),
            GO(2), Cls("notrbrc", "+"), GC(2), Lit(<<"}">>) >>,
         << RLit(<<"(">>), RGrp(1), RLit(<<")","/","(">>), RGrp(2), RLit(<<")">>) >> >>,
     <<  << Lit(<<"\\","s","q","r","t","{">>), GO(1), Cls("notrbrc", "+"), GC(1), Lit(<<"}">>) >>,
         << RLit(<<"s","q","r","t","(">>), RGrp(1), RLit(<<")">>) >> >>,
     << <<Lit(<<"\\","s","i","n">>)>>, <<RLit(<<"s","i","n">>)>> >>,
     << <<Lit(<<"\\","c","o","s">>)>>, <<RLit(<<"c","o","s">>)>> >>,
     << <<Lit(<<"\\","t","a","n">>)>>, <<RLit(<<"t","a","n">>)>> >>,
     << <<Lit(<<"\\","l","o","g">>)>>, <<RLit(<<"l","o","g">>)>> >>,
     << <<Lit(<<"\\","e","x","p">>)>>, <<RLit(<<"e","x","p">>)>> >>,
     << <<Lit(<<"\\","p","i">>)>>, <<RLit(<<"p","i">>)>> >>,
     << <<Lit(<<"\\","i","n","f","t","y">>)>>, <<RLit(<<"i","n","f">>)>> >>,
     << <<Lit(<<"^">>)>>, <<RLit(<<"*","*">>)>> >>,
     << <<Lit(<<"\\","c","d","o","t">>)>>, <<RLit(<<"*">>)>> >>,
     << <<Lit(<<"\\","t","i","m","e","s">>)>>, <<RLit(<<"*">>)>> >>,
     << <<Lit(<<"\\","d","i","v">>)>>, <<RLit(<<"/">>)>> >>,
     << <<Lit(<<"\\","l","e","q">>)>>, <<RLit(<<"<","=">>)>> >>,
     << <<Lit(<<"\\","g","e","q">>)>>, <<RLit(<<">","=">>)>> >>,
     << <<Lit(<<"\\","n","e","q">>)>>, <<RLit(<<"!","=">>)>> >>,
     << <<Lit(<<"\\","a","p","p","r","o","x">>)>>, <<RLit(<<"~","=">>)>> >> >>

(***************************************************************************)
(* ExpressionParser                                                        *)
(***************************************************************************)
\* extract_variables: the names of the parsed text that are neither a
\* function nor a constant; raises ValueError when the text does not parse
VariablesOf(tree) ==
  IF tree.ok
    THEN [raised |-> FALSE,
          vars |-> { id \in WalkNames(tree.node) :
                       id \notin Range(MATH_FUNCTIONS) /\ id \notin Range(MATH_CONSTANTS) }]
    ELSE [raised |-> TRUE, vars |-> {}]

extract_variables(expression) ==
  VariablesOf(AstParse(expression))

\* parse_expression_type
parse_expression_type(expression) ==
  IF /\ Contains(expression, <<"=">>)
     /\ ~\E op \in { <<"<">>, <<">">>, <<"<","=">>, <<">","=">>, <<"!","=">> } :
           Contains(expression, op)
    THEN "implicit"
  ELSE IF ReSearch(<< Cls("xy", "1"), Cls("space", "*"), Lit(<<"(">>) >>, expression, FALSE)
    THEN "parametric"
  ELSE "explicit"

\* convert_html_entities: str.replace for every entry, in order (a text
\* that does not contain the entity is left as it is)
RECURSIVE HtmlFrom(_, _)
HtmlFrom(i, s) ==
  IF i > Len(html_entity_mapping)
    THEN s
    ELSE IF Contains(s, html_entity_mapping[i][1])
      THEN HtmlFrom(i + 1, StrReplace(s, html_entity_mapping[i][1], html_entity_mapping[i][2]))
      ELSE HtmlFrom(i + 1, s)

convert_html_entities(expression) ==
  HtmlFrom(1, expression)

\* convert_latex_to_ascii (of ExpressionParser): re.sub for every entry, in
\* order (a text without a match is left as it is)
RECURSIVE LatexFrom(_, _)
LatexFrom(i, s) ==
  IF i > Len(latex_mapping)
    THEN s
    ELSE IF ReSearch(latex_mapping[i][1], s, FALSE)
      THEN LatexFrom(i + 1, ReSub(latex_mapping[i][1], latex_mapping[i][2], s))
      ELSE LatexFrom(i + 1, s)

convert_latex_to_ascii(expression) ==
  LatexFrom(1, expression)

\* the capture group ([a-zA-Z]) / (\d) / (\d+) numbered g
GAlpha(g) ==
  << GO(g), Cls("alpha", "1"), GC(g) >>

GDigit(g) ==
  << GO(g), Cls("digit", "1"), GC(g) >>

GDigits(g) ==
  << GO(g), Cls("digit", "+"), GC(g) >>

\* the capture group ({func1}\([^)]*\)) as group 1
GCall(func1) ==
  << GO(1), Lit(func1 \o <<"(">>), Cls("notrpar", "*"), Lit(<<")">>), GC(1) >>

SpacesLParen ==
  << Cls("space", "*"), Lit(<<"(">>) >>

\* Steps 1 and 4.5: sinx -> sin(x)
FuncVar(func, s) ==
  ReSub(<<Lit(func)>> \o GAlpha(1) \o <<NLA("word")>>,
        << RLit(func \o <<"(">>), RGrp(1), RLit(<<")">>) >>, s)

\* Step 2: 2sin(x) -> 2*sin(x), 2sin -> 2*sin
NumberFunc(func, s) ==
  ReSub(GDigits(1) \o <<Lit(func), NLA("word")>>,
        << RGrp(1), RLit(<<"*">> \o func) >>,
        ReSub(GDigits(1) \o <<Lit(func)>> \o SpacesLParen,
              << RGrp(1), RLit(<<"*">> \o func \o <<"(">>) >>, s))

\* Step 3: xsin(x) -> x*sin(x), xcosy -> x*cos(y), xsin -> x*sin
VarFunc(func, s) ==
  ReSub(GAlpha(1) \o <<Lit(func), NLA("word"), NLA("lparen")>>,
        << RGrp(1), RLit(<<"*">> \o func) >>,
        ReSub(GAlpha(1) \o <<Lit(func)>> \o GAlpha(2) \o <<NLA("word")>>,
              << RGrp(1), RLit(<<"*">> \o func \o <<"(">>), RGrp(2), RLit(<<")">>) >>,
              ReSub(GAlpha(1) \o <<Lit(func)>> \o SpacesLParen,
                    << RGrp(1), RLit(<<"*">> \o func \o <<"(">>) >>, s)))

\* Step 4, one pair (func1, func2): sin(x)cosy -> sin(x)*cos(y),
\* sin(x)cos( -> sin(x)*cos(
FuncFunc(func1, func2, s) ==
  ReSub(GCall(func1) \o <<GO(2), Lit(func2), GC(2)>> \o SpacesLParen
          \o << Cls("space", "*"), GO(3), Cls("alpha", "+"), GC(3),
                Cls("space", "*"), Lit(<<")">>) >>,
        << RGrp(1), RLit(<<"*">>), RGrp(2), RLit(<<"(">>), RGrp(3), RLit(<<")">>) >>,
        ReSub(GCall(func1) \o <<GO(2), Lit(func2), GC(2)>> \o SpacesLParen,
              << RGrp(1), RLit(<<"*">>), RGrp(2), RLit(<<"(">>) >>,
              ReSub(GCall(func1) \o <<GO(2), Lit(func2), GC(2)>> \o GAlpha(3) \o <<NLA("word")>>,
                    << RGrp(1), RLit(<<"*">>), RGrp(2), RLit(<<"(">>), RGrp(3), RLit(<<")">>) >>,
                    s)))

\* Step 5: protect a function call, sin( -> FUNC_sin_CALL_
Placeholder(func) ==
  <<"F","U","N","C","_">> \o func \o <<"_","C","A","L","L","_">>

Protect(func, s) ==
  ReSub(<<WB, Lit(func)>> \o SpacesLParen, <<RLit(Placeholder(func))>>, s)

Restore(func, s) ==
  StrReplace(s, Placeholder(func), func \o <<"(">>)

\* for func in function_names: result = Op(func, result).  Every pattern
\* of such a loop contains the text of func, so an iteration whose func
\* does not occur in the current text leaves it unchanged.
RECURSIVE ForEachFunc(_, _, _)
ForEachFunc(Op(_, _), i, s) ==
  IF i > Len(function_names)
    THEN s
    ELSE IF Contains(s, function_names[i])
      THEN ForEachFunc(Op, i + 1, Op(function_names[i], s))
      ELSE ForEachFunc(Op, i + 1, s)

\* Step 4: for func1 in function_names: for func2 in function_names
RECURSIVE FuncFuncInner(_, _, _)
FuncFuncInner(func1, j, s) ==
  IF j > Len(function_names)
    THEN s
    ELSE IF Contains(s, function_names[j])
      THEN FuncFuncInner(func1, j + 1, FuncFunc(func1, function_names[j], s))
      ELSE FuncFuncInner(func1, j + 1, s)

RECURSIVE FuncFuncOuter(_, _)
FuncFuncOuter(i, s) ==
  IF i > Len(function_names)
    THEN s
    ELSE IF Contains(s, function_names[i])
      THEN FuncFuncOuter(i + 1, FuncFuncInner(function_names[i], 1, s))
      ELSE FuncFuncOuter(i + 1, s)

\* Step 6: xy -> x*y for a standalone pair of letters
VarVar(s) ==
  ReSub(<<NLB("word")>> \o GAlpha(1) \o GAlpha(2) \o <<NLA("word")>>,
        << RGrp(1), RLit(<<"*">>), RGrp(2) >>, s)

\* Steps 1 to 4.5, the loops over function_names
FunctionSteps(s) ==
  ForEachFunc(FuncVar, 1,
    FuncFuncOuter(1,
      ForEachFunc(VarFunc, 1,
        ForEachFunc(NumberFunc, 1,
          ForEachFunc(FuncVar, 1, s)))))

\* Step 5, before the function calls are protected: 2x -> 2*x, x2 -> x*2,
\* 2( -> 2*(
NumberSteps(s) ==
  ReSub(GDigit(1) \o SpacesLParen, << RGrp(1), RLit(<<"*","(">>) >>,
    ReSub(GAlpha(1) \o GDigit(2), << RGrp(1), RLit(<<"*">>), RGrp(2) >>,
      ReSub(GDigit(1) \o GAlpha(2), << RGrp(1), RLit(<<"*">>), RGrp(2) >>, s)))

\* Step 5, x( -> x*( with the function calls protected
LetterParen(s) ==
  ForEachFunc(Restore, 1,
    ReSub(GAlpha(1) \o SpacesLParen, << RGrp(1), RLit(<<"*","(">>) >>,
      ForEachFunc(Protect, 1, s)))

\* Step 5, after a closing parenthesis: )2 -> )*2, )x -> )*x, )( -> )*(
ParenSteps(s) ==
  ReSub(<<Lit(<<")">>), Cls("space", "*"), Lit(<<"(">>)>>, << RLit(<<")","*","(">>) >>,
    ReSub(<<Lit(<<")">>)>> \o GAlpha(1), << RLit(<<")","*">>), RGrp(1) >>,
      ReSub(<<Lit(<<")">>)>> \o GDigit(1), << RLit(<<")","*">>), RGrp(1) >>, s)))

\* add_implicit_multiplication
add_implicit_multiplication(expression) ==
  VarVar(VarVar(ParenSteps(LetterParen(NumberSteps(FunctionSteps(expression))))))

\* preprocess_expression
preprocess_expression(expression) ==
  add_implicit_multiplication(convert_latex_to_ascii(convert_html_entities(expression)))

(***************************************************************************)
(* ExpressionParser.validate_expression.  A result is                      *)
(* [raised, valid, error]: raised tells that an exception left the method, *)
(* error is <<>> for None, otherwise the message as its fixed text         *)
(* followed by the interpolated part.                                      *)
(***************************************************************************)
NoError ==
  <<>>

\* the (is_valid, error) tuple the method returns
Verdict(valid, error) ==
  [raised |-> FALSE, valid |-> valid, error |-> error]

\* unsupported_patterns, each with the pattern text the message quotes
Guarded(name) ==
  << Lit(name), Cls("space", "*"), Lit(<<"(">>) >>

unsupported_patterns ==
  << [src |-> "__.*__",       re |-> << Lit(<<"_","_">>), Cls("any", "*"), Lit(<<"_","_">>) >>],
     [src |-> "import\\s+",   re |-> << Lit(<<"i","m","p","o","r","t">>), Cls("space", "+") >>],
     [src |-> "exec\\s*\\(",    re |-> Guarded(<<"e","x","e","c">>)],
     [src |-> "eval\\s*\\(",    re |-> Guarded(<<"e","v","a","l">>)],
     [src |-> "open\\s*\\(",    re |-> Guarded(<<"o","p","e","n">>)],
     [src |-> "file\\s*\\(",    re |-> Guarded(<<"f","i","l","e">>)],
     [src |-> "input\\s*\\(",   re |-> Guarded(<<"i","n","p","u","t">>)],
     [src |-> "globals\\s*\\(", re |-> Guarded(<<"g","l","o","b","a","l","s">>)],
     [src |-> "locals\\s*\\(",  re |-> Guarded(<<"l","o","c","a","l","s">>)],
     [src |-> "vars\\s*\\(",    re |-> Guarded(<<"v","a","r","s">>)],
     [src |-> "dir\\s*\\(",     re |-> Guarded(<<"d","i","r">>)],
     [src |-> "\\+\\+",         re |-> << Lit(<<"+","+">>) >>],
     [src |-> "--",             re |-> << Lit(<<"-","-">>) >>] >>

allowed_nodes ==
  { "Expression", "BinOp", "UnaryOp", "Constant", "Name", "Load", "Call",
    "Subscript", "ListComp", "SetComp", "DictComp", "GeneratorExp",
    "Compare", "Eq", "NotEq", "Lt", "LtE", "Gt", "GtE", "Is", "IsNot", "In",
    "NotIn", "BoolOp", "And", "Or", "Not", "IfExp", "Attribute", "BitXor",
    "Pow", "Add", "Sub", "Mult", "Div", "Mod", "UAdd", "USub", "FloorDiv" }

\* the denylist search without re.IGNORECASE
DenyHitsCaseSensitive(expression) ==
  { i \in 1..Len(unsupported_patterns) :
      ReSearch(unsupported_patterns[i].re, expression, FALSE) }

\* re.search(pattern, expression, re.IGNORECASE) over the list, in order:
\* the indexes of the patterns found
DenyHits(expression) ==
  { i \in 1..Len(unsupported_patterns) :
      ReSearch(unsupported_patterns[i].re, expression, TRUE) }

\* expression.split('=', 1): the text before and after the first '='
SplitEq(expression) ==
  LET i == CHOOSE j \in 1..Len(expression) :
             expression[j] = "=" /\ \A h \in 1..(j - 1) : expression[h] # "="
  IN << SubSeq(expression, 1, i - 1), SubSeq(expression, i + 1, Len(expression)) >>

\* the implicit branch: both sides of the first '=' are parsed on their own
ValidateSides(parts) ==
  IF Len(parts) # 2
    THEN Verdict(FALSE, <<"Invalid implicit equation format">>)
  ELSE IF AstParse(Strip(parts[1])).ok /\ AstParse(Strip(parts[2])).ok
    THEN Verdict(TRUE, NoError)
    ELSE Verdict(FALSE, <<"Syntax error in implicit equation: ", "SyntaxError">>)

ValidateImplicit(expression) ==
  IF ~Contains(expression, <<"=">>)
    THEN Verdict(FALSE, <<"Implicit equation must contain '=' sign">>)
    ELSE ValidateSides(SplitEq(expression))

\* for node in ast.walk(tree): the first node of a type that is not allowed
CheckNodes(nodes) ==
  LET bad == { i \in 1..Len(nodes) : nodes[i].t \notin allowed_nodes } IN
  IF bad # {}
    THEN Verdict(FALSE, <<"Unsupported expression construct: ",
                          nodes[CHOOSE i \in bad : \A j \in bad : i <= j].t>>)
    ELSE Verdict(TRUE, NoError)

\* the explicit branch: ast.parse of the whole text, then the node check.
\* exc names the exception that leaves the block ("" when it returns)
CheckTree(tree) ==
  IF ~tree.ok
    THEN [exc |-> "SyntaxError", ret |-> Verdict(FALSE, NoError)]
    ELSE [exc |-> "", ret |-> CheckNodes(Walk(<<tree.node>>))]

ValidateTree(expression) ==
  CheckTree(AstParse(expression))

\* validate_expression with the denylist searched before the '=' check
ValidateDenylistFirst(expression, expr_type, hits) ==
  IF hits # {}
    THEN [exc |-> "", ret |-> Verdict(FALSE,
            <<"Unsupported expression construct: ",
              unsupported_patterns[CHOOSE i \in hits : \A j \in hits : i <= j].src>>)]
  ELSE IF expr_type # "implicit" /\ Contains(expression, <<"=">>)
    THEN [exc |-> "", ret |-> Verdict(FALSE,
            <<"Assignment operator (=) not supported in this context. For implicit equations, use format like 'x^2 + y^2 = 1'">>)]
  ELSE IF expr_type = "implicit"
    THEN [exc |-> "", ret |-> ValidateImplicit(expression)]
    ELSE ValidateTree(expression)

\* the body of the try block, given the expression type and the denylist
\* patterns found
ValidateTyped(expression, expr_type, hits) ==
  IF expr_type # "implicit" /\ Contains(expression, <<"=">>)
    THEN [exc |-> "", ret |-> Verdict(FALSE,
            <<"Assignment operator (=) not supported in this context. For implicit equations, use format like 'x^2 + y^2 = 1'">>)]
  ELSE IF hits # {}
    THEN [exc |-> "", ret |-> Verdict(FALSE,
            <<"Unsupported expression construct: ",
              unsupported_patterns[CHOOSE i \in hits : \A j \in hits : i <= j].src>>)]
  ELSE IF expr_type = "implicit"
    THEN [exc |-> "", ret |-> ValidateImplicit(expression)]
    ELSE ValidateTree(expression)

ValidateBody(expression) ==
  ValidateTyped(expression, parse_expression_type(expression), DenyHits(expression))

\* the try block of validate_expression without its except clauses: an
\* exception leaves the method
ValidateNoExcept(r) ==
  IF r.exc # ""
    THEN [raised |-> TRUE, valid |-> FALSE, error |-> NoError]
    ELSE r.ret

\* the two except clauses of the try block
ValidateExcept(r) ==
  IF r.exc = "SyntaxError" THEN Verdict(FALSE, <<"Syntax error: ", r.exc>>)
  ELSE IF r.exc # "" THEN Verdict(FALSE, <<"Validation error: ", r.exc>>)
  ELSE r.ret

\* validate_expression
validate_expression(expression) ==
  ValidateExcept(ValidateBody(expression))

\* compile_expression: the text numexpr is given ('^' becomes '**'; the two
\* other substitutions replace a text by itself)
compile_expression(expression) ==
  ReSub(<< Lit(<<"^">>) >>, << RLit(<<"*","*">>) >>, expression)

(***************************************************************************)
(* ExpressionEvaluator.parse_and_classify_expression.  The result is the   *)
(* returned dictionary, with raised telling that an exception left the     *)
(* method; None is <<>>, the lists built from a set are sets.              *)
(***************************************************************************)
None ==
  <<>>

\* the dictionary of the explicit and implicit branches
Classified(expression, processed_expr, type, variables, is_valid, error, parts) ==
  [raised |-> FALSE,
   original_expression  |-> expression,
   processed_expression |-> processed_expr,
   type       |-> type,
   variables  |-> variables,
   is_valid   |-> is_valid,
   error      |-> error,
   primary_variable |-> IF <<"x">> \in variables THEN <<"x">> ELSE None,
   parameters |-> { v \in variables : v \notin { <<"x">>, <<"y">>, <<"t">> } },
   equation_parts |-> parts]

\* the dictionary of the outer except clause
ClassifyError(expression, e) ==
  [raised |-> FALSE,
   original_expression  |-> expression,
   processed_expression |-> expression,
   type       |-> "error",
   variables  |-> {},
   is_valid   |-> FALSE,
   error      |-> <<"Parse error: ", e>>,
   primary_variable |-> None,
   parameters |-> {},
   equation_parts |-> None]

\* re.findall(r'\b[a-zA-Z]\b', text): the letters that stand alone
LoneLetters(text) ==
  { <<text[i]>> : i \in { j \in 1..Len(text) :
        /\ IsAlpha(text[j])
        /\ (j = 1 \/ ~IsWord(text[j - 1]))
        /\ (j = Len(text) \/ ~IsWord(text[j + 1])) } }

\* the implicit branch: the variables of both sides, or of the left side
\* and the lone letters when a side does not parse
ImplicitVariables(l, r, processed_expr) ==
  IF l.raised THEN LoneLetters(processed_expr)
  ELSE IF r.raised THEN l.vars \cup LoneLetters(processed_expr)
  ELSE l.vars \cup r.vars

ImplicitSides(expression, processed_expr, left_side, right_side) ==
  Classified(expression, processed_expr, "implicit",
             ImplicitVariables(extract_variables(left_side),
                               extract_variables(right_side), processed_expr),
             TRUE, NoError, <<left_side, right_side>>)

ImplicitParts(expression, processed_expr, parts) ==
  ImplicitSides(expression, processed_expr, Strip(parts[1]), Strip(parts[2]))

ClassifyImplicit(expression, processed_expr) ==
  ImplicitParts(expression, processed_expr, SplitEq(processed_expr))

\* the explicit and parametric branch; exc names the exception that leaves
\* the try block
ClassifyExplicit(expression, processed_expr, expr_type, variables, verdict) ==
  IF variables.raised
    THEN [exc |-> "Failed to parse expression", ret |-> ClassifyError(expression, "")]
    ELSE [exc |-> "",
          ret |-> Classified(expression, processed_expr, expr_type,
                             variables.vars, verdict.valid, verdict.error, None)]

\* the explicit branch validating the text as given instead of the
\* preprocessed text
ClassifyValidatingRaw(expression, processed_expr, expr_type) ==
  IF expr_type = "implicit"
    THEN [exc |-> "", ret |-> ClassifyImplicit(expression, processed_expr)]
    ELSE ClassifyExplicit(expression, processed_expr, expr_type,
                          extract_variables(processed_expr),
                          validate_expression(expression))

ClassifyTyped(expression, processed_expr, expr_type) ==
  IF expr_type = "implicit"
    THEN [exc |-> "", ret |-> ClassifyImplicit(expression, processed_expr)]
    ELSE ClassifyExplicit(expression, processed_expr, expr_type,
                          extract_variables(processed_expr),
                          validate_expression(processed_expr))

ClassifyProcessed(expression, processed_expr) ==
  ClassifyTyped(expression, processed_expr, parse_expression_type(processed_expr))

\* the body of the try block
ClassifyBody(expression) ==
  ClassifyProcessed(expression, preprocess_expression(expression))

\* the except clause of the try block
ClassifyExcept(expression, r) ==
  IF r.exc # "" THEN ClassifyError(expression, r.exc) ELSE r.ret

\* parse_and_classify_expression
parse_and_classify_expression(expression) ==
  ClassifyExcept(expression, ClassifyBody(expression))

(***************************************************************************)
(* Floating point numbers, scaled down: a finite number is a multiple m of *)
(* 1/FloatDen of magnitude at most FloatMax (results are rounded towards   *)
(* zero, a larger magnitude overflows to an infinity), and there are the   *)
(* two infinities (k = "inf", m the sign) and NaN.                         *)
(***************************************************************************)
FloatMax ==
  1000

FloatDen ==
  4

PosInf ==
  [k |-> "inf", m |-> 1]

NegInf ==
  [k |-> "inf", m |-> -1]

NaN ==
  [k |-> "nan", m |-> 0]

Fin(m) ==
  IF m > FloatMax * FloatDen THEN PosInf
  ELSE IF m < -(FloatMax * FloatDen) THEN NegInf
  ELSE [k |-> "fin", m |-> m]

\* the float of an integer
Num(i) ==
  Fin(i * FloatDen)

Sgn(i) ==
  IF i > 0 THEN 1 ELSE IF i < 0 THEN -1 ELSE 0

Mag(i) ==
  IF i < 0 THEN -i ELSE i

\* integer quotient rounded towards zero
Quot(a, b) ==
  Sgn(a) * Sgn(b) * (Mag(a) \div Mag(b))

Inf(sign) ==
  IF sign < 0 THEN NegInf ELSE PosInf

\* np.isfinite and np.isnan of one element
IsFinite(v) ==
  v.k = "fin"

IsNaN(v) ==
  v.k = "nan"

FNeg(a) ==
  [a EXCEPT !.m = -a.m]

FAdd(a, b) ==
  IF IsNaN(a) \/ IsNaN(b) THEN NaN
  ELSE IF a.k = "inf" /\ b.k = "inf" THEN (IF a.m = b.m THEN a ELSE NaN)
  ELSE IF a.k = "inf" THEN a
  ELSE IF b.k = "inf" THEN b
  ELSE Fin(a.m + b.m)

FSub(a, b) ==
  FAdd(a, FNeg(b))

FMul(a, b) ==
  IF IsNaN(a) \/ IsNaN(b) THEN NaN
  ELSE IF a.k = "inf" \/ b.k = "inf"
    THEN (IF a.m = 0 \/ b.m = 0 THEN NaN ELSE Inf(Sgn(a.m) * Sgn(b.m)))
  ELSE Fin(Quot(a.m * b.m, FloatDen))

\* IEEE division: x/0 is an infinity, 0/0 and inf/inf are NaN
FDiv(a, b) ==
  IF IsNaN(a) \/ IsNaN(b) THEN NaN
  ELSE IF a.k = "inf" THEN (IF b.k = "inf" THEN NaN
                            ELSE Inf(a.m * (IF b.m < 0 THEN -1 ELSE 1)))
  ELSE IF b.k = "inf" THEN Fin(0)
  ELSE IF b.m = 0 THEN (IF a.m = 0 THEN NaN ELSE Inf(a.m))
  ELSE Fin(Quot(a.m * FloatDen, b.m))

\* |a|^n for a finite a of magnitude other than 0 and 1 and n >= 1, by
\* repeated multiplication that stops at an infinity or at zero
RECURSIVE PowNat(_, _)
PowNat(a, n) ==
  IF n = 1 THEN a
  ELSE LET r == FMul(a, a) IN
       IF r.k # "fin" \/ r.m = 0 \/ r = a THEN r
       ELSE IF n % 2 = 0 THEN PowNat(r, n \div 2)
       ELSE LET q == PowNat(r, n \div 2) IN FMul(a, q)

FAbs(a) ==
  [a EXCEPT !.m = Mag(a.m)]

IsWhole(b) ==
  b.k = "fin" /\ b.m % FloatDen = 0

IsOdd(b) ==
  IsWhole(b) /\ (Mag(b.m) \div FloatDen) % 2 = 1

\* C pow(a, b)
FPow(a, b) ==
  IF b.k = "fin" /\ b.m = 0 THEN Num(1)
  ELSE IF a = Num(1) THEN Num(1)
  ELSE IF IsNaN(a) \/ IsNaN(b) THEN NaN
  ELSE IF b.k = "inf"
    THEN (IF a.k = "fin" /\ Mag(a.m) = FloatDen THEN Num(1)
          ELSE IF (a.k = "inf" \/ Mag(a.m) > FloatDen) = (b.m > 0) THEN PosInf
          ELSE Fin(0))
  ELSE IF a.k = "inf"
    THEN (IF b.m < 0 THEN Fin(0)
          ELSE IF a.m < 0 /\ IsOdd(b) THEN NegInf ELSE PosInf)
  ELSE IF a.m = 0
    THEN (IF b.m > 0 THEN Fin(0) ELSE PosInf)
  ELSE IF ~IsWhole(b) /\ a.m < 0 THEN NaN
  ELSE LET n   == Mag(b.m) \div FloatDen
           mag == IF n = 0 THEN Num(1) ELSE PowNat(FAbs(a), n)
           pos == IF b.m < 0 THEN FDiv(Num(1), mag) ELSE mag
       IN IF a.m < 0 /\ IsOdd(b) THEN FNeg(pos) ELSE pos

\* np.sqrt: NaN below zero, otherwise the root rounded down
FSqrt(a) ==
  IF IsNaN(a) \/ a.m < 0 THEN NaN
  ELSE IF a.k = "inf" THEN PosInf
  ELSE Fin(CHOOSE r \in 0..(a.m * FloatDen) :
             r * r <= a.m * FloatDen /\ (r + 1) * (r + 1) > a.m * FloatDen)

\* np.log: NaN below zero, -inf at zero, otherwise 2(a-1)/(a+1), the first
\* term of the series of the logarithm
FLog(a) ==
  IF IsNaN(a) \/ a.m < 0 THEN NaN
  ELSE IF a.k = "inf" THEN PosInf
  ELSE IF a.m = 0 THEN NegInf
  ELSE Fin(Quot(2 * FloatDen * (a.m - FloatDen), a.m + FloatDen))

\* a comparison as the float of its truth value (False with a NaN operand)
FLess(a, b) ==
  /\ ~IsNaN(a) /\ ~IsNaN(b)
  /\ a # b
  /\ \/ a.k = "inf" /\ a.m < 0
     \/ b.k = "inf" /\ b.m > 0
     \/ a.k = "fin" /\ b.k = "fin" /\ a.m < b.m

FBool(b) ==
  IF b THEN Num(1) ELSE Num(0)

(***************************************************************************)
(* numexpr's evaluate(text, local_dict=context).  The text is compiled as  *)
(* a Python expression and run with every name bound to a numexpr node:    *)
(* arithmetic between literals is done by Python (and raises as Python     *)
(* does), arithmetic that involves a name is done element by element on    *)
(* floats and never raises.  A value is                                    *)
(*   [k, d, a, f]: k = "py" a Python number, "node" a numexpr expression   *)
(*   (d = 0 a scalar, d = 1 an array, a its elements), "func" a function   *)
(*   of numexpr's table (f its name), "raise" an exception (f its class).  *)
(* A context binds a name to [k: "array" | "scalar" | "func", a, f].       *)
(***************************************************************************)
NeVal(k, d, a, f) ==
  [k |-> k, d |-> d, a |-> a, f |-> f]

PyNum(v) ==
  NeVal("py", 0, <<v>>, "")

NeNode(d, a) ==
  NeVal("node", d, a, "")

NeRaise(exc) ==
  NeVal("raise", 0, <<>>, exc)

\* context values
Array(a) ==
  [k |-> "array", a |-> a, f |-> ""]

Scalar(v) ==
  [k |-> "scalar", a |-> <<v>>, f |-> ""]

Function(name) ==
  [k |-> "func", a |-> <<>>, f |-> name]

\* the functions of numexpr's own table that the expressions of this model
\* call (the table also has the trigonometric and hyperbolic functions)
NumexprFunctions ==
  { <<"s","q","r","t">>, <<"l","o","g">>, <<"a","b","s">> }

ApplyFunction(name, v) ==
  CASE name = <<"s","q","r","t">> -> FSqrt(v)
    [] name = <<"l","o","g">>     -> FLog(v)
    [] OTHER                      -> FAbs(v)

\* the value of a decimal literal
RECURSIVE LiteralValue(_)
LiteralValue(digits) ==
  IF digits = <<>> THEN 0
  ELSE 10 * LiteralValue(SubSeq(digits, 1, Len(digits) - 1)) + DigitVal(digits[Len(digits)])

ArithmeticOps ==
  { "Add", "Sub", "Mult", "Div", "Pow", "Lt", "Gt", "LtE", "GtE", "Eq", "NotEq" }

\* one float operation
Arith(o, a, b) ==
  CASE o = "Add"  -> FAdd(a, b)
    [] o = "Sub"  -> FSub(a, b)
    [] o = "Mult" -> FMul(a, b)
    [] o = "Div"  -> FDiv(a, b)
    [] o = "Pow"  -> FPow(a, b)
    [] o = "Lt"   -> FBool(FLess(a, b))
    [] o = "Gt"   -> FBool(FLess(b, a))
    [] o = "LtE"  -> FBool(FLess(a, b) \/ (a = b /\ ~IsNaN(a)))
    [] o = "GtE"  -> FBool(FLess(b, a) \/ (a = b /\ ~IsNaN(a)))
    [] o = "Eq"   -> FBool(a = b /\ ~IsNaN(a))
    [] OTHER      -> FBool(a # b \/ IsNaN(a))

\* an operation between two Python numbers: Python raises for a division
\* by zero and for a result out of range
PyArith(o, a, b) ==
  IF o \notin ArithmeticOps THEN NeRaise("TypeError")
  ELSE IF o = "Div" /\ b.m = 0 THEN NeRaise("ZeroDivisionError")
  ELSE IF o = "Pow" /\ a.m = 0 /\ b.m < 0 THEN NeRaise("ZeroDivisionError")
  ELSE LET r == Arith(o, a, b) IN
       IF IsFinite(r) THEN PyNum(r) ELSE NeRaise("OverflowError")

\* an operation of the virtual machine, element by element; a scalar is
\* broadcast over an array
NodeArith(o, l, r) ==
  IF o \notin ArithmeticOps THEN NeRaise("NotImplementedError")
  ELSE IF l.d = 1 /\ r.d = 1
    THEN NeNode(1, [i \in 1..Len(l.a) |-> Arith(o, l.a[i], r.a[i])])
  ELSE IF l.d = 1
    THEN NeNode(1, [i \in 1..Len(l.a) |-> Arith(o, l.a[i], r.a[1])])
  ELSE IF r.d = 1
    THEN NeNode(1, [i \in 1..Len(r.a) |-> Arith(o, l.a[1], r.a[i])])
  ELSE NeNode(0, <<Arith(o, l.a[1], r.a[1])>>)

BinaryOp(o, l, r) ==
  IF l.k = "raise" THEN l
  ELSE IF r.k = "raise" THEN r
  ELSE IF l.k = "func" \/ r.k = "func" THEN NeRaise("TypeError")
  ELSE IF l.k = "py" /\ r.k = "py" THEN PyArith(o, l.a[1], r.a[1])
  ELSE NodeArith(o, l, r)

\* the value of a name: numexpr's functions first, then the context
Lookup(id, context) ==
  IF id \in NumexprFunctions THEN NeVal("func", 0, <<>>, id)
  ELSE IF id \notin DOMAIN context THEN NeRaise("KeyError")
  ELSE LET b == context[id] IN
       IF b.k = "array" THEN NeNode(1, b.a)
       ELSE IF b.k = "scalar" THEN NeNode(0, b.a)
       ELSE NeRaise("TypeError")

\* a call f(arg) of one of numexpr's functions; on a Python number the
\* function is computed at once, without raising
CallFunction(func, args) ==
  IF func.k = "raise" THEN func
  ELSE IF func.k # "func" \/ Len(args) # 1 THEN NeRaise("TypeError")
  ELSE LET arg == args[1] IN
       IF arg.k = "raise" THEN arg
       ELSE IF arg.k = "func" THEN NeRaise("TypeError")
       ELSE NeNode(arg.d, [i \in 1..Len(arg.a) |-> ApplyFunction(func.f, arg.a[i])])

RECURSIVE NeEval(_, _)
NeEval(n, context) ==
  CASE n.t = "Constant" ->
         (IF LiteralValue(n.v) > FloatMax THEN NeRaise("OverflowError")
          ELSE PyNum(Num(LiteralValue(n.v))))
    [] n.t = "Name" -> Lookup(n.v, context)
    [] n.t = "UnaryOp" ->
         LET v == NeEval(n.k[1], context) IN
         IF v.k = "raise" THEN v
         ELSE IF v.k = "func" THEN NeRaise("TypeError")
         ELSE IF n.o[1] = "USub" THEN [v EXCEPT !.a = [i \in 1..Len(v.a) |-> FNeg(v.a[i])]]
         ELSE v
    [] n.t = "BinOp" ->
         BinaryOp(n.o[1], NeEval(n.k[1], context), NeEval(n.k[2], context))
    [] n.t = "Compare" ->
         (IF Len(n.o) = 1
            THEN BinaryOp(n.o[1], NeEval(n.k[1], context), NeEval(n.k[2], context))
            ELSE NeRaise("TypeError"))
    [] n.t = "Call" ->
         (IF \E i \in 2..Len(n.k) : n.k[i].t \in {"keyword", "Starred"}
            THEN NeRaise("TypeError")
            ELSE CallFunction(NeEval(n.k[1], context),
                              [i \in 1..(Len(n.k) - 1) |-> NeEval(n.k[i + 1], context)]))
    [] OTHER -> NeRaise("TypeError")

\* ne.evaluate: [raised, ndim, a] with ndim = 0 for a zero-dimensional
\* result, which is what an expression without an array variable gives
NeRaised ==
  [raised |-> TRUE, ndim |-> 0, a |-> <<>>]

NeResult(v) ==
  IF v.k \in {"raise", "func"}
    THEN NeRaised
    ELSE [raised |-> FALSE, ndim |-> v.d, a |-> v.a]

NeRun(tree, context) ==
  IF tree.ok THEN NeResult(NeEval(tree.node, context)) ELSE NeRaised

NeEvaluate(text, context) ==
  NeRun(AstParse(text), context)

\* np.where(np.isfinite(result), result, np.nan)
FiniteOrNaN(a) ==
  [i \in 1..Len(a) |-> IF IsFinite(a[i]) THEN a[i] ELSE NaN]

(***************************************************************************)
(* ExpressionEvaluator.  params is [none, map]: none tells that the caller *)
(* passed None (the default), map is the dictionary otherwise.  A method   *)
(* result carries, beside what is returned (or raised), the texts the      *)
(* call handed to ne.evaluate (ne_calls: [source, text]), the context it   *)
(* built and the entries it wrote to parser.compiled_expressions.          *)
(***************************************************************************)
NoParams ==
  [none |-> TRUE, map |-> <<>>]

Params(map) ==
  [none |-> FALSE, map |-> map]

\* {**a, **b}: the bindings of b replace those of a
Merge(a, b) ==
  [id \in DOMAIN a \cup DOMAIN b |-> IF id \in DOMAIN b THEN b[id] ELSE a[id]]

\* np.pi, np.e and 2 * np.pi rounded to the model's floats
ConstantValue(name) ==
  CASE name = <<"p","i">> -> Fin((314 * FloatDen) \div 100)
    [] name = <<"e">>     -> Fin((271 * FloatDen) \div 100)
    [] OTHER              -> FMul(Num(2), Fin((314 * FloatDen) \div 100))

FunctionBindings ==
  [id \in Range(MATH_FUNCTIONS) |-> Function(id)]

ConstantBindings ==
  [id \in Range(MATH_CONSTANTS) |-> Scalar(ConstantValue(id))]

\* params or {}, as context bindings
ParamBindings(params) ==
  IF params.none THEN <<>>
  ELSE [id \in DOMAIN params.map |-> Scalar(params.map[id])]

\* the record of a call that raised before ne.evaluate was reached
Raised(context, compiled) ==
  [raised |-> TRUE, ndim |-> 0, a |-> <<>>,
   context |-> context, ne_calls |-> <<>>, compiled |-> compiled]

\* the context literal of evaluate_expression
BaseContext(xs, params) ==
  Merge(Merge(Merge([id \in { <<"x">> } |-> Array(xs)], FunctionBindings),
              ConstantBindings),
        ParamBindings(params))

\* the variables the loop finds missing from the context
Missing(variables, context) ==
  { var \in variables : var # <<"x">> /\ var \notin DOMAIN context }

\* ne.evaluate and np.where
Evaluated(expr, compiled_expr, context, result) ==
  [raised |-> result.raised, ndim |-> result.ndim, a |-> FiniteOrNaN(result.a),
   context |-> context,
   ne_calls |-> << [source |-> expr, text |-> compiled_expr] >>,
   compiled |-> << <<expr, compiled_expr>> >>]

\* the loop over the variables: `var in params` raises TypeError when
\* params is None, otherwise every missing variable is bound to
\* params[var] or to 0.0
BindMissing(expr, params, compiled_expr, context, missing) ==
  IF missing # {} /\ params.none
    THEN Raised(context, << <<expr, compiled_expr>> >>)
    ELSE Evaluated(expr, compiled_expr,
                   Merge(context, [var \in missing |->
                                     IF var \in DOMAIN params.map
                                       THEN Scalar(params.map[var])
                                       ELSE Scalar(Num(0))]),
                   NeEvaluate(compiled_expr,
                              Merge(context, [var \in missing |->
                                                IF var \in DOMAIN params.map
                                                  THEN Scalar(params.map[var])
                                                  ELSE Scalar(Num(0))])))

\* the statements after compile_expression
EvaluateCompiled(expr, params, compiled_expr, context, variables) ==
  IF variables.raised
    THEN Raised(context, << <<expr, compiled_expr>> >>)
    ELSE BindMissing(expr, params, compiled_expr, context,
                     Missing(variables.vars, context))

\* the statements after validate_expression
EvaluateValidated(expr, xs, params, verdict) ==
  IF ~verdict.valid
    THEN Raised(<<>>, <<>>)
    ELSE EvaluateCompiled(expr, params, compile_expression(expr),
                          BaseContext(xs, params), extract_variables(expr))

\* evaluate_expression
evaluate_expression(expr, xs, params) ==
  EvaluateValidated(expr, xs, params, validate_expression(expr))

\* evaluate_single_point: ndim is 0, a holds the float returned
SinglePoint(result) ==
  IF result.raised THEN result
  ELSE [result EXCEPT !.ndim = 0, !.a = <<result.a[1]>>]

evaluate_single_point(expr, x, params) ==
  SinglePoint(evaluate_expression(expr, <<x>>, params))

\* np.linspace(start, stop, num) for num >= 0
Linspace(start, stop, num) ==
  IF num = 1 THEN <<start>>
  ELSE LET step == FDiv(FSub(stop, start), Num(num - 1)) IN
       [i \in 1..num |-> FAdd(start, FMul(Num(i - 1), step))]

\* the positions of the finite elements, in order
RECURSIVE FinitePositions(_, _)
FinitePositions(a, i) ==
  IF i > Len(a) THEN <<>>
  ELSE (IF IsFinite(a[i]) THEN <<i>> ELSE <<>>) \o FinitePositions(a, i + 1)

\* np.nanmin / np.nanmax of an array with a finite element
NanMin(a) ==
  CHOOSE v \in { a[i] : i \in { j \in 1..Len(a) : IsFinite(a[j]) } } :
    \A j \in 1..Len(a) : IsFinite(a[j]) => v.m <= a[j].m

NanMax(a) ==
  CHOOSE v \in { a[i] : i \in { j \in 1..Len(a) : IsFinite(a[j]) } } :
    \A j \in 1..Len(a) : IsFinite(a[j]) => v.m >= a[j].m

\* the dictionary generate_graph_data returns
GraphData(coordinates, total_points, valid_points, x_range, y_range) ==
  [coordinates |-> coordinates, total_points |-> total_points,
   valid_points |-> valid_points, x_range |-> x_range, y_range |-> y_range]

NoGraphData ==
  GraphData(<<>>, 0, 0, <<>>, <<>>)

\* the record of a generate_graph_data call that raised
GraphRaised(y) ==
  [raised |-> TRUE, data |-> NoGraphData,
   context |-> y.context, ne_calls |-> y.ne_calls, compiled |-> y.compiled]

\* the statements after evaluate_expression, valid being the positions of
\* valid_mask.  A zero-dimensional y_values makes the mask a single
\* boolean: x_values[mask] then has one row (the whole of x_values) when
\* it is True and none when it is False, and float() of a row raises
\* unless the row has exactly one element.
GraphMasked(x_range, x_values, y, valid) ==
  IF y.raised \/ (y.ndim = 0 /\ valid # <<>> /\ Len(x_values) # 1)
    THEN GraphRaised(y)
    ELSE [raised |-> FALSE,
          data |->
            IF y.ndim = 1
              THEN GraphData([i \in 1..Len(valid) |->
                                [x |-> x_values[valid[i]], y |-> y.a[valid[i]]]],
                             Len(x_values), Len(valid), x_range,
                             IF Len(valid) > 0 THEN <<NanMin(y.a), NanMax(y.a)>>
                                               ELSE <<Num(0), Num(0)>>)
            ELSE IF valid = <<>>
              THEN GraphData(<<>>, Len(x_values), 0, x_range, <<Num(0), Num(0)>>)
              ELSE GraphData(<< [x |-> x_values[1], y |-> y.a[1]] >>,
                             Len(x_values), 1, x_range, <<y.a[1], y.a[1]>>),
          context |-> y.context, ne_calls |-> y.ne_calls, compiled |-> y.compiled]

GraphValues(x_range, x_values, y) ==
  GraphMasked(x_range, x_values, y, FinitePositions(y.a, 1))

GraphOver(expr, x_range, x_values, params) ==
  GraphValues(x_range, x_values,
              evaluate_expression(preprocess_expression(expr), x_values, params))

\* generate_graph_data (np.linspace raises for a negative num_points)
generate_graph_data(expr, x_range, num_points, params) ==
  IF num_points < 0
    THEN GraphRaised(Raised(<<>>, <<>>))
    ELSE GraphOver(expr, x_range, Linspace(x_range[1], x_range[2], num_points), params)

\* the context of evaluate_parametric: 't' is bound after the params
ParametricContext(t_values, params) ==
  Merge(Merge(Merge(FunctionBindings, ConstantBindings), ParamBindings(params)),
        [id \in { <<"t">> } |-> Array(t_values)])

NoArray ==
  [ndim |-> 0, a |-> <<>>]

\* the two ne.evaluate calls and np.where; x and y are the arrays returned
ParametricValues(px, cx, py, cy, context, x_values, y_values) ==
  IF x_values.raised
    THEN [raised |-> TRUE, x |-> NoArray, y |-> NoArray, context |-> context,
          ne_calls |-> << [source |-> px, text |-> cx] >>,
          compiled |-> << <<px, cx>> >>]
    ELSE [raised |-> y_values.raised,
          x |-> IF y_values.raised THEN NoArray
                ELSE [ndim |-> x_values.ndim, a |-> FiniteOrNaN(x_values.a)],
          y |-> IF y_values.raised THEN NoArray
                ELSE [ndim |-> y_values.ndim, a |-> FiniteOrNaN(y_values.a)],
          context |-> context,
          ne_calls |-> << [source |-> px, text |-> cx], [source |-> py, text |-> cy] >>,
          compiled |-> << <<px, cx>>, <<py, cy>> >>]

ParametricCompiled(px, cx, py, cy, context) ==
  ParametricValues(px, cx, py, cy, context,
                   NeEvaluate(cx, context), NeEvaluate(cy, context))

ParametricProcessed(px, py, context) ==
  ParametricCompiled(px, compile_expression(px), py, compile_expression(py), context)

\* evaluate_parametric
evaluate_parametric(x_expr, y_expr, t_range, num_points, params) ==
  IF num_points < 0
    THEN [raised |-> TRUE, x |-> NoArray, y |-> NoArray, context |-> <<>>,
          ne_calls |-> <<>>, compiled |-> <<>>]
    ELSE ParametricProcessed(preprocess_expression(x_expr),
                             preprocess_expression(y_expr),
                             ParametricContext(Linspace(t_range[1], t_range[2], num_points),
                                               params))

(***************************************************************************)
(* The state: the arguments of one call on the global evaluator, the       *)
(* method applied to them, what it returned or raised, and what the call   *)
(* left behind.                                                            *)
(***************************************************************************)
VARIABLES
  expression,            \* the expression text given by the caller
  params,                \* the params argument
  x_values,              \* the sample array (given, or made by np.linspace)
  x_range,               \* the x_range (or t_range) argument, <<>> without one
  num_points,            \* the num_points argument, 0 without one
  op,                    \* the method that has run ("" before the call)
  result,                \* what the method returned
  context,               \* the local_dict handed to ne.evaluate
  ne_calls,              \* the texts handed to ne.evaluate, in order
  compiled_expressions,  \* parser.compiled_expressions
  cache,                 \* MemoryCache._cache: key -> [value, expires]
  now,                   \* datetime.now(), in seconds
  lock,                  \* the thread holding MemoryCache._lock, 0 when free
  threads,               \* each thread's position in its cache method, and its locals
  history,               \* per key, the latest set that no delete or clear followed
  served,                \* the number of requests the API has answered
  evaluations            \* what the evaluator yields for each call the API makes

vars ==
  << expression, params, x_values, x_range, num_points, op, result, context,
     ne_calls, compiled_expressions, cache, now, lock, threads, history, served,
     evaluations >>

\* the state of the cache and of the API around it
cache_vars ==
  << cache, now, lock, threads, history, served, evaluations >>

\* all texts made of at most n of the given fragments
RECURSIVE Concats(_, _)
Concats(frags, n) ==
  IF n = 0
    THEN { <<>> }
    ELSE LET shorter == Concats(frags, n - 1) IN
         shorter \cup { s \o f : s \in shorter, f \in frags }

MaxParts ==
  3

\* the fragments of the texts given to the validator and the classifier
ParserFragments ==
  { <<"x">>, <<"y">>, <<"e">>, <<"2">>, <<"=">>, <<"<">>, <<"(">>, <<")">>, <<"-">>,
    <<"d","i","r">>, <<"D","i","r","(">>, <<"_","_">>, <<"=","y","=","=">> }

\* the fragments of the texts given to the evaluation methods
MaxEvalParts ==
  3

EvalFragments ==
  { <<"x">>, <<"t">>, <<"a">>, <<"1">>, <<"/">>, <<"+">>,
    <<"s","q","r","t","(">>, <<")">> }

\* the params arguments
ParamChoices ==
  { NoParams,
    Params(<<>>),
    Params([id \in { <<"a">> } |-> Num(2)]),
    Params([id \in { <<"x">>, <<"p","i">>, <<"s","q","r","t">> } |-> Num(2)]) }

\* the largest finite float
Largest ==
  Fin(FloatMax * FloatDen)

\* the sample arrays
SampleArrays ==
  { <<>>, <<Num(0)>>, <<Num(-1), Num(2)>>, <<Num(1), Largest, Num(0)>> }

\* the points of evaluate_single_point
SamplePoints ==
  { Num(0), Num(2) }

\* the (start, stop) ranges and the point counts of np.linspace
Ranges ==
  { <<Num(-1), Num(1)>> }

MaxPoints ==
  2

\* the state before any call
Fresh ==
  /\ x_values = <<>>
  /\ x_range = <<>>
  /\ num_points = 0
  /\ cache = <<>>
  /\ now = 0
  /\ lock = 0
  /\ threads = <<>>
  /\ history = <<>>
  /\ served = 0
  /\ evaluations = <<>>
  /\ op = ""
  /\ result = None
  /\ context = <<>>
  /\ ne_calls = <<>>
  /\ compiled_expressions = <<>>

Init ==
  /\ expression \in Concats(EvalFragments, MaxEvalParts)
  /\ params \in ParamChoices
  /\ Fresh

InitParser ==
  /\ expression \in Concats(ParserFragments, MaxParts)
  /\ params = NoParams
  /\ Fresh

\* self.compiled_expressions[hash(expression)] = compiled_expr, for each
\* entry in turn (a text stands for its hash)
RECURSIVE Memoize(_, _)
Memoize(memo, entries) ==
  IF entries = <<>> THEN memo
  ELSE Memoize(Merge(memo, [k \in { Head(entries)[1] } |-> Head(entries)[2]]),
               Tail(entries))

\* what a call leaves behind: r is what the method returned or raised
\* together with the context, the ne.evaluate calls and the compiled
\* texts of the call
Returned(r) ==
  [f \in DOMAIN r \ {"context", "ne_calls", "compiled"} |-> r[f]]

Call(name, xs, r) ==
  /\ op' = name
  /\ x_values' = xs
  /\ result' = Returned(r)
  /\ context' = r.context
  /\ ne_calls' = r.ne_calls
  /\ compiled_expressions' = Memoize(compiled_expressions, r.compiled)
  /\ UNCHANGED << expression, params >>
  /\ UNCHANGED cache_vars

\* a call of parser.validate_expression(expression)
ValidateExpression ==
  /\ op = ""
  /\ op' = "validate_expression"
  /\ result' = validate_expression(expression)
  /\ UNCHANGED << expression, params, x_values, x_range, num_points, context,
                  ne_calls, compiled_expressions >>
  /\ UNCHANGED cache_vars

\* a call of evaluator.parse_and_classify_expression(expression)
ParseAndClassifyExpression ==
  /\ op = ""
  /\ op' = "parse_and_classify_expression"
  /\ result' = parse_and_classify_expression(expression)
  /\ UNCHANGED << expression, params, x_values, x_range, num_points, context,
                  ne_calls, compiled_expressions >>
  /\ UNCHANGED cache_vars

\* a call of evaluator.evaluate_expression(expression, xs, params)
EvaluateExpression ==
  /\ op = ""
  /\ \E xs \in SampleArrays :
       Call("evaluate_expression", xs, evaluate_expression(expression, xs, params))
  /\ UNCHANGED << x_range, num_points >>

\* a call of evaluator.evaluate_single_point(expression, x, params)
EvaluateSinglePoint ==
  /\ op = ""
  /\ \E x \in SamplePoints :
       Call("evaluate_single_point", <<x>>, evaluate_single_point(expression, x, params))
  /\ UNCHANGED << x_range, num_points >>

\* a call of evaluator.generate_graph_data(expression, x_range, num_points, params)
GenerateGraphData ==
  /\ op = ""
  /\ \E range \in Ranges, n \in 0..MaxPoints :
       /\ x_range' = range
       /\ num_points' = n
       /\ Call("generate_graph_data", Linspace(range[1], range[2], n),
               generate_graph_data(expression, range, n, params))

\* the y expressions of the parametric calls
ParametricYExpressions ==
  { <<"t">>, <<"1">> }

\* a call of evaluator.evaluate_parametric(expression, y_expr, t_range, num_points, params)
EvaluateParametric ==
  /\ op = ""
  /\ \E y_expr \in ParametricYExpressions, t_range \in Ranges :
       /\ x_range' = t_range
       /\ num_points' = MaxPoints
       /\ Call("evaluate_parametric", Linspace(t_range[1], t_range[2], MaxPoints),
               evaluate_parametric(expression, y_expr, t_range, MaxPoints, params))

Next ==
  \/ EvaluateExpression
  \/ EvaluateSinglePoint
  \/ GenerateGraphData
  \/ EvaluateParametric

Spec ==
  Init /\ [][Next]_vars

NextParser ==
  \/ ValidateExpression
  \/ ParseAndClassifyExpression

SpecParser ==
  InitParser /\ [][NextParser]_vars

(***************************************************************************)
(* The normaliser on its own: one call of add_implicit_multiplication or   *)
(* of preprocess_expression on a text.                                     *)
(***************************************************************************)
MaxNormParts ==
  3

\* the fragments of the texts given to the normaliser
NormalizerFragments ==
  { <<"x">>, <<"y">>, <<"z">>, <<"2">>, <<"(">>, <<")">>, <<"+">>,
    <<"s","i","n">>, <<"p","i">>, <<"e">>, <<"&","p","i",";">>,
    <<"\\","p","i">> }

\* the call f(x) of every known function name f
FunctionCalls ==
  { function_names[i] \o <<"(", "x", ")">> : i \in 1..Len(function_names) }

InitNormalizer ==
  /\ expression \in Concats(NormalizerFragments, MaxNormParts) \cup FunctionCalls
  /\ params = NoParams
  /\ Fresh

\* a call of parser.add_implicit_multiplication(expression)
AddImplicitMultiplication ==
  /\ op = ""
  /\ op' = "add_implicit_multiplication"
  /\ result' = add_implicit_multiplication(expression)
  /\ UNCHANGED << expression, params, x_values, x_range, num_points, context,
                  ne_calls, compiled_expressions >>
  /\ UNCHANGED cache_vars

\* a call of parser.preprocess_expression(expression)
PreprocessExpression ==
  /\ op = ""
  /\ op' = "preprocess_expression"
  /\ result' = preprocess_expression(expression)
  /\ UNCHANGED << expression, params, x_values, x_range, num_points, context,
                  ne_calls, compiled_expressions >>
  /\ UNCHANGED cache_vars

NextNormalizer ==
  \/ AddImplicitMultiplication
  \/ PreprocessExpression

SpecNormalizer ==
  InitNormalizer /\ [][NextNormalizer]_vars

(***************************************************************************)
(* The pattern solver for implicit equations.                              *)
(***************************************************************************)

\* An element of radius * np.cos(angles) or radius * np.sin(angles): the
\* value scale * f(2 * pi * k / d), kept as its terms (the angle is the
\* fraction k / d of a full turn).
Trig(f, scale, k, d) ==
  [f |-> f, scale |-> scale, k |-> k, d |-> d]

\* np.linspace(0, 2 * np.pi, num_points, endpoint=False): the full turn is
\* not among the samples
HalfOpenAngles(n) ==
  [i \in 1..n |-> <<i - 1, n>>]

\* np.linspace(0, 2 * np.pi, num_points), each angle as the fraction <<k, d>>
\* of a full turn: both endpoints are among the samples
angles(n) ==
  IF n = 1 THEN << <<0, 1>> >>
  ELSE [i \in 1..n |-> <<i - 1, n - 1>>]

\* np.array(x_coords), np.array(y_coords)
Solved(x_coords, y_coords) ==
  [raised |-> FALSE, x_coords |-> x_coords, y_coords |-> y_coords]

\* ([xy])\s*=\s*(-?\d+(?:\.\d+)?), for texts without a decimal point
simple_pattern ==
  << GO(1), Cls("xy", "1"), GC(1), Cls("space", "*"), Lit(<<"=">>),
     Cls("space", "*"), GO(2), Cls("minus", "?"), Cls("digit", "+"), GC(2) >>

\* x\^2\s*\+\s*y\^2\s*=
circle_pattern ==
  << Lit(<<"x", "^", "2">>), Cls("space", "*"), Lit(<<"+">>), Cls("space", "*"),
     Lit(<<"y", "^", "2">>), Cls("space", "*"), Lit(<<"=">>) >>

\* =\s*(\d+(?:\.\d+)?), for texts without a decimal point
radius_pattern ==
  << Lit(<<"=">>), Cls("space", "*"), GO(1), Cls("digit", "+"), GC(1) >>

\* x\^2\s*/\s*(\d+(?:\.\d+)?)\s*\+\s*y\^2 ... \s*=\s*1, for texts without a
\* decimal point: with the optional (?:\s*/\s*(\d+(?:\.\d+)?))? taken or left
ellipse_pattern(with_b) ==
  << Lit(<<"x", "^", "2">>), Cls("space", "*"), Lit(<<"/">>), Cls("space", "*"),
     GO(1), Cls("digit", "+"), GC(1), Cls("space", "*"), Lit(<<"+">>),
     Cls("space", "*"), Lit(<<"y", "^", "2">>) >>
  \o (IF with_b
        THEN << Cls("space", "*"), Lit(<<"/">>), Cls("space", "*"),
                GO(2), Cls("digit", "+"), GC(2) >>
        ELSE <<>>)
  \o << Cls("space", "*"), Lit(<<"=">>), Cls("space", "*"), Lit(<<"1">>) >>

\* the match of the ellipse pattern at one position: the optional group is
\* tried first, and left out when the rest then fails
EllipseAt(s, pos) ==
  IF MatchAt(ellipse_pattern(TRUE), 1, s, pos, NoCaps, FALSE).ok
    THEN MatchAt(ellipse_pattern(TRUE), 1, s, pos, NoCaps, FALSE)
    ELSE MatchAt(ellipse_pattern(FALSE), 1, s, pos, NoCaps, FALSE)

\* re.search of the ellipse pattern: the match at the leftmost position
ellipse_match(s) ==
  IF \E pos \in 1..(Len(s) + 1) : EllipseAt(s, pos).ok
    THEN EllipseAt(s, CHOOSE pos \in 1..(Len(s) + 1) :
                        /\ EllipseAt(s, pos).ok
                        /\ \A q \in 1..(pos - 1) : ~EllipseAt(s, q).ok)
    ELSE NoMatch

\* the text of group g of a match
Group(s, m, g) ==
  SubSeq(s, m.caps[g][1], m.caps[g][2] - 1)

\* float(text) of an optionally signed run of digits
FloatOf(text) ==
  IF text # <<>> /\ text[1] = "-"
    THEN FNeg(Num(LiteralValue(Tail(text))))
    ELSE Num(LiteralValue(text))

\* x = c or y = c: the constant twice, against num_points and -num_points
SolveLine(equation, simple_match, n) ==
  IF Group(equation, simple_match, 1) = <<"x">>
    THEN Solved(<< FloatOf(Group(equation, simple_match, 2)),
                   FloatOf(Group(equation, simple_match, 2)) >>,
                << Num(n), Num(-n) >>)
    ELSE Solved(<< Num(n), Num(-n) >>,
                << FloatOf(Group(equation, simple_match, 2)),
                   FloatOf(Group(equation, simple_match, 2)) >>)

\* radius_x * np.cos(angles), radius_y * np.sin(angles)
SolveCurve(radius_x, radius_y, n) ==
  Solved([i \in 1..n |-> Trig("cos", radius_x, angles(n)[i][1], angles(n)[i][2])],
         [i \in 1..n |-> Trig("sin", radius_y, angles(n)[i][1], angles(n)[i][2])])

\* x^2 + y^2 = r2: the first number after any '=' is r2; nothing is set
\* without one, and the ellipse pattern cannot match the same text
SolveCircle(equation, n) ==
  IF ReSearch(radius_pattern, equation, FALSE)
    THEN SolveCurve(FSqrt(FloatOf(Group(equation, ReFirst(radius_pattern, equation, FALSE), 1))),
                    FSqrt(FloatOf(Group(equation, ReFirst(radius_pattern, equation, FALSE), 1))),
                    n)
    ELSE Solved(<<>>, <<>>)

\* x^2/a + y^2/b = 1, with b = 1.0 when the /b part is absent
SolveEllipse(equation, m, n) ==
  SolveCurve(FSqrt(FloatOf(Group(equation, m, 1))),
             IF m.caps[2] = NoCaps[2]
               THEN FSqrt(Num(1))
               ELSE FSqrt(FloatOf(Group(equation, m, 2))),
             n)

\* the body of solve_implicit_equation on the preprocessed text with ** put
\* back to ^
SolvePatterns(equation, n) ==
  IF ReSearch(simple_pattern, equation, FALSE)
    THEN SolveLine(equation, ReFirst(simple_pattern, equation, FALSE), n)
  ELSE IF ReSearch(circle_pattern, equation, FALSE)
    THEN SolveCircle(equation, n)
  ELSE IF ellipse_match(equation).ok
    THEN SolveEllipse(equation, ellipse_match(equation), n)
  ELSE Solved(<<>>, <<>>)

\* evaluator.solve_implicit_equation(equation, x_range, num_points, params):
\* neither x_range nor params is read
solve_implicit_equation(equation, range, n, p) ==
  SolvePatterns(StrReplace(preprocess_expression(equation), <<"*", "*">>, <<"^">>), n)

\* the number of fragments of an equation given to the solver
MaxImplicitParts ==
  3

\* the fragments of the equations given to the solver
ImplicitFragments ==
  { <<"x">>, <<"y", " ", "=", " ">>, <<"4">>, <<"-">>, <<"=", "1">>,
    <<"=", "4">>, <<"/", "9">>,
    <<"x", "^", "2", "+", "y", "^", "2">>,
    <<"x", "^", "2", "/", "4", "+", "y", "^", "2">> }

\* the x_range arguments of the solver
ImplicitRanges ==
  { <<Num(-1), Num(1)>>, <<Num(-3), Num(3)>> }

\* the largest num_points argument of the solver
MaxAngles ==
  3

InitImplicit ==
  /\ expression \in Concats(ImplicitFragments, MaxImplicitParts)
  /\ params = NoParams
  /\ Fresh

\* a call of evaluator.solve_implicit_equation(expression, x_range, num_points, params)
SolveImplicitEquation ==
  /\ op = ""
  /\ op' = "solve_implicit_equation"
  /\ \E range \in ImplicitRanges, n \in 0..MaxAngles :
       /\ x_range' = range
       /\ num_points' = n
       /\ result' = solve_implicit_equation(expression, range, n, params)
  /\ UNCHANGED << expression, params, x_values, context, ne_calls, compiled_expressions >>
  /\ UNCHANGED cache_vars

NextImplicit ==
  SolveImplicitEquation

SpecImplicit ==
  InitImplicit /\ [][NextImplicit]_vars

(***************************************************************************)
(* MemoryCache: a dictionary of items [value, expires] behind one lock.    *)
(* Each method is a `with self._lock:` block; a thread runs it one         *)
(* statement at a time.                                                    *)
(***************************************************************************)

\* the number of threads that use the cache
MaxThreads ==
  2

\* the number of cache methods a thread calls
MaxOps ==
  2

\* the last second of the clock
MaxTime ==
  3

\* the largest ttl given to set
MaxTtl ==
  2

CacheKeys ==
  { "k1", "k2" }

\* the values stored (None, the empty tuple, is not among them)
CacheValues ==
  { <<"v1">>, <<"v2">> }

\* a thread outside every cache method
Idle ==
  [pc |-> "idle", method |-> "", key |-> "", value |-> None, ttl |-> 0,
   item |-> None, at |-> 0, ret |-> None, ops |-> 0]

\* the dictionary d without the key k
Without(d, k) ==
  [j \in DOMAIN d \ {k} |-> d[j]]

\* the dictionary d with d[k] = v
With(d, k, v) ==
  [j \in DOMAIN d \cup {k} |-> IF j = k THEN v ELSE d[j]]

\* datetime.now() <= item['expires']
UnexpiredInclusive(time, item) ==
  time <= item.expires

\* `with self._lock:` entered whoever holds the lock
LockIgnored(l) ==
  TRUE

\* `with self._lock:` is entered only while no thread holds the lock
LockFree(l) ==
  l = 0

\* datetime.now() < item['expires']
Unexpired(time, item) ==
  time < item.expires

\* {'value': value, 'expires': datetime.now() + timedelta(seconds=ttl)}
Item(value, time, ttl) ==
  [value |-> value, expires |-> time + ttl]

InitCache ==
  /\ expression = <<>>
  /\ params = NoParams
  /\ x_values = <<>> /\ x_range = <<>> /\ num_points = 0
  /\ op = "" /\ result = None /\ context = <<>> /\ ne_calls = <<>>
  /\ compiled_expressions = <<>>
  /\ cache = <<>>
  /\ now = 0
  /\ lock = 0
  /\ threads = [t \in 1..MaxThreads |-> Idle]
  /\ history = <<>>
  /\ served = 0
  /\ evaluations = <<>>

\* thread t moves to the statement pc with the locals in locals
Step(t, pc, locals) ==
  threads' = [threads EXCEPT ![t] = [f \in DOMAIN Idle |->
                                       IF f = "pc" THEN pc
                                       ELSE IF f \in DOMAIN locals THEN locals[f]
                                       ELSE threads[t][f]]]

\* the statement a method starts with inside the lock
FirstStatement(method) ==
  CASE method = "get"    -> "get_in"
    [] method = "set"    -> "set_store"
    [] method = "delete" -> "delete_in"
    [] method = "clear"  -> "clear_all"

\* thread t calls a method and enters its `with self._lock:`
Enter(t, method, key, value, ttl) ==
  /\ threads[t].pc = "idle"
  /\ threads[t].ops < MaxOps
  /\ LockFree(lock)
  /\ lock' = t
  /\ Step(t, FirstStatement(method),
          [method |-> method, key |-> key, value |-> value, ttl |-> ttl,
           item |-> None, ret |-> None])
  /\ UNCHANGED << cache, now, history >>

CacheGet(t) ==
  \E key \in CacheKeys : Enter(t, "get", key, None, 0)

CacheSet(t) ==
  \E key \in CacheKeys, value \in CacheValues, ttl \in 0..MaxTtl :
    Enter(t, "set", key, value, ttl)

CacheDelete(t) ==
  \E key \in CacheKeys : Enter(t, "delete", key, None, 0)

CacheClear(t) ==
  Enter(t, "clear", "", None, 0)

\* get: if key in self._cache
GetIn(t) ==
  /\ threads[t].pc = "get_in"
  /\ Step(t, IF threads[t].key \in DOMAIN cache THEN "get_item" ELSE "get_none",
          [at |-> now])
  /\ UNCHANGED << cache, now, lock, history >>

\* get: item = self._cache[key] (KeyError without the key)
GetItem(t) ==
  /\ threads[t].pc = "get_item"
  /\ IF threads[t].key \in DOMAIN cache
       THEN Step(t, "get_unexpired", [item |-> cache[threads[t].key]])
       ELSE Step(t, "raised", <<>>)
  /\ UNCHANGED << cache, now, lock, history >>

\* get: if datetime.now() < item['expires']: return item['value']
GetUnexpired(t) ==
  /\ threads[t].pc = "get_unexpired"
  /\ IF Unexpired(now, threads[t].item)
       THEN Step(t, "release", [ret |-> threads[t].item.value, at |-> now])
       ELSE Step(t, "get_del", [at |-> now])
  /\ UNCHANGED << cache, now, lock, history >>

\* get: del self._cache[key] (KeyError without the key)
GetDel(t) ==
  /\ threads[t].pc = "get_del"
  /\ IF threads[t].key \in DOMAIN cache
       THEN /\ cache' = Without(cache, threads[t].key)
            /\ Step(t, "get_none", <<>>)
       ELSE /\ cache' = cache
            /\ Step(t, "raised", <<>>)
  /\ UNCHANGED << now, lock, history >>

\* get: return None
GetNone(t) ==
  /\ threads[t].pc = "get_none"
  /\ Step(t, "release", [ret |-> None])
  /\ UNCHANGED << cache, now, lock, history >>

\* set: self._cache[key] = {...}
SetStore(t) ==
  /\ threads[t].pc = "set_store"
  /\ cache' = With(cache, threads[t].key, Item(threads[t].value, now, threads[t].ttl))
  /\ history' = With(history, threads[t].key,
                     [value |-> threads[t].value, at |-> now,
                      ttl |-> threads[t].ttl, by |-> t])
  /\ Step(t, "release", [at |-> now])
  /\ UNCHANGED << now, lock >>

\* delete: if key in self._cache
DeleteIn(t) ==
  /\ threads[t].pc = "delete_in"
  /\ Step(t, IF threads[t].key \in DOMAIN cache THEN "delete_del" ELSE "release", <<>>)
  /\ history' = Without(history, threads[t].key)
  /\ UNCHANGED << cache, now, lock >>

\* delete: del self._cache[key] (KeyError without the key)
DeleteDel(t) ==
  /\ threads[t].pc = "delete_del"
  /\ IF threads[t].key \in DOMAIN cache
       THEN /\ cache' = Without(cache, threads[t].key)
            /\ Step(t, "release", <<>>)
       ELSE /\ cache' = cache
            /\ Step(t, "raised", <<>>)
  /\ UNCHANGED << now, lock, history >>

\* clear: self._cache.clear()
ClearAll(t) ==
  /\ threads[t].pc = "clear_all"
  /\ cache' = <<>>
  /\ history' = <<>>
  /\ Step(t, "release", <<>>)
  /\ UNCHANGED << now, lock >>

\* the end of the `with` block, by return or by exception: the lock is
\* released if this thread holds it
Release(t) ==
  /\ threads[t].pc \in {"release", "raised"}
  /\ lock' = (IF lock = t THEN 0 ELSE lock)
  /\ threads' = [threads EXCEPT ![t] =
                    [Idle EXCEPT !.pc = IF threads[t].pc = "raised" THEN "failed" ELSE "idle",
                                 !.ops = threads[t].ops + 1]]
  /\ UNCHANGED << cache, now, history >>

\* a second passes
Tick ==
  /\ now < MaxTime
  /\ now' = now + 1
  /\ UNCHANGED << cache, lock, threads, history >>

evaluator_vars ==
  << expression, params, x_values, x_range, num_points, op, result, context,
     ne_calls, compiled_expressions, served, evaluations >>

NextCache ==
  \/ Tick /\ UNCHANGED evaluator_vars
  \/ \E t \in 1..MaxThreads :
       /\ UNCHANGED evaluator_vars
       /\ \/ CacheGet(t)
          \/ CacheSet(t)
          \/ CacheDelete(t)
          \/ CacheClear(t)
          \/ GetIn(t)
          \/ GetItem(t)
          \/ GetUnexpired(t)
          \/ GetDel(t)
          \/ GetNone(t)
          \/ SetStore(t)
          \/ DeleteIn(t)
          \/ DeleteDel(t)
          \/ ClearAll(t)
          \/ Release(t)

SpecCache ==
  InitCache /\ [][NextCache]_vars

(***************************************************************************)
(* The properties checked, one section per claim.                          *)
(***************************************************************************)

\* C1: no text is handed to ne.evaluate unless validate_expression has
\* accepted the text it was compiled from: after every evaluation call,
\* each ne.evaluate call of it was made for a source text that
\* validate_expression accepts.
C1_ValidatedBeforeEvaluate ==
  \A i \in 1..Len(ne_calls) : validate_expression(ne_calls[i].source).valid

\* the text w stands at position i of s
HasAt(s, i, w) ==
  /\ i >= 1
  /\ i + Len(w) - 1 <= Len(s)
  /\ SubSeq(s, i, i + Len(w) - 1) = w

\* the names the denylist guards when an opening parenthesis follows
GuardedNames ==
  { <<"e","x","e","c">>, <<"e","v","a","l">>, <<"o","p","e","n">>,
    <<"f","i","l","e">>, <<"i","n","p","u","t">>,
    <<"g","l","o","b","a","l","s">>, <<"l","o","c","a","l","s">>,
    <<"v","a","r","s">>, <<"d","i","r">> }

\* s contains a denylisted pattern in some letter case: two "__" one
\* after the other, "import" and a blank, a guarded name followed by
\* blanks and "(", "++" or "--"
Denylisted(s) ==
  LET l == [i \in 1..Len(s) |-> LowerChar(s[i])] IN
  \/ \E i, j \in 1..Len(l) : j >= i + 2 /\ HasAt(l, i, <<"_","_">>) /\ HasAt(l, j, <<"_","_">>)
  \/ \E i \in 1..Len(l) :
       /\ HasAt(l, i, <<"i","m","p","o","r","t">>)
       /\ i + 6 <= Len(l)
       /\ IsSpace(l[i + 6])
  \/ \E name \in GuardedNames : \E i, j \in 1..Len(l) :
       /\ HasAt(l, i, name)
       /\ j >= i + Len(name)
       /\ l[j] = "("
       /\ \A h \in (i + Len(name))..(j - 1) : IsSpace(l[h])
  \/ \E i \in 1..Len(l) : HasAt(l, i, <<"+","+">>) \/ HasAt(l, i, <<"-","-">>)

\* C2: validate_expression never returns (True, None) for a text that
\* contains a denylisted pattern in any letter case, whether the text is
\* classified implicit or not.
C2_DenylistNeverAccepted ==
  (op = "validate_expression" /\ Denylisted(expression)) => ~result.valid

\* a text classified implicit, with a denylisted name written with an
\* upper-case letter, has been validated
C2_Witness ==
  /\ op = "validate_expression"
  /\ Denylisted(expression)
  /\ \E i \in 1..Len(expression) : expression[i] \in Upper
  /\ parse_expression_type(expression) = "implicit"
  /\ ~result.valid

\* C3: in the context evaluate_expression builds, 'x' is bound to the
\* array of independent values and every function and constant name to
\* its built-in implementation, whatever the params are.
C3_ReservedBindingsKept ==
  (op \in {"evaluate_expression", "evaluate_single_point", "generate_graph_data"}
     /\ context # <<>>)
  => /\ context[<<"x">>] = Array(x_values)
     /\ \A id \in Range(MATH_FUNCTIONS) : context[id] = Function(id)
     /\ \A id \in Range(MATH_CONSTANTS) : context[id] = Scalar(ConstantValue(id))

\* C4: for a text validate_expression accepts and an array xs,
\* evaluate_expression returns (without raising) a one-dimensional array
\* of Len(xs) elements; for the empty xs it returns an empty array.
C4_OneValuePerSample ==
  (op = "evaluate_expression" /\ validate_expression(expression).valid)
  => /\ ~result.raised
     /\ result.ndim = 1
     /\ Len(result.a) = Len(x_values)

\* the text is one that evaluate_expression validates and compiles
Evaluable(text) ==
  validate_expression(text).valid /\ AstParse(compile_expression(text)).ok

\* C5: evaluate_expression raises only when the validation or the
\* compilation of the text fails, never for a numeric failure at a sample;
\* every element it returns is finite or NaN.
C5_NumericFailureAbsorbed ==
  op = "evaluate_expression"
  => /\ result.raised => ~Evaluable(expression)
     /\ ~result.raised => \A i \in 1..Len(result.a) :
                            IsFinite(result.a[i]) \/ IsNaN(result.a[i])

\* the variables of the text that are neither 'x', a constant, a function
\* nor a key of params
Unbound(text, p) ==
  Missing(extract_variables(text).vars, BaseContext(x_values, p))

\* the context with every such variable bound to 0.0
ZeroBound(text, p) ==
  Merge(BaseContext(x_values, p), [var \in Unbound(text, p) |-> Scalar(Num(0))])

\* C6: evaluate_expression binds to 0.0 every variable of an accepted text
\* that is neither 'x', a constant, a function nor a key of params, and
\* evaluates the text in that context, for params {} and for params None.
C6_MissingVariablesAreZero ==
  (op = "evaluate_expression" /\ validate_expression(expression).valid
     /\ Unbound(expression, params) # {})
  => /\ context = ZeroBound(expression, params)
     /\ result.raised = NeEvaluate(compile_expression(expression), context).raised

\* c occurs in s
HasChar(s, c) ==
  \E i \in 1..Len(s) : s[i] = c

\* s has an '=' together with a comparison operator: '<', '>' or "!="
AssignmentWithComparison(s) ==
  /\ HasChar(s, "=")
  /\ \/ HasChar(s, "<")
     \/ HasChar(s, ">")
     \/ \E i \in 1..Len(s) : HasAt(s, i, <<"!","=">>)

\* C7: validate_expression accepts a text with an '=' only when the text
\* is implicit (an '=' and none of '<', '>', "!="), and a text with an '='
\* and a comparison operator gets the "Assignment operator (=) not
\* supported" message whatever else it contains (a denylisted pattern, a
\* syntax error).
C7_AssignmentRejectedFirst ==
  op = "validate_expression"
  => /\ (result.valid /\ HasChar(expression, "="))
          => ~AssignmentWithComparison(expression)
     /\ AssignmentWithComparison(expression)
          => /\ ~result.valid
             /\ result.error = <<"Assignment operator (=) not supported in this context. For implicit equations, use format like 'x^2 + y^2 = 1'">>

\* a text with "<=" that also holds a denylisted pattern has been
\* validated
C7_Witness ==
  /\ op = "validate_expression"
  /\ AssignmentWithComparison(expression)
  /\ Denylisted(expression)
  /\ ~result.valid

\* the number of '=' in s
RECURSIVE CountEq(_)
CountEq(s) ==
  IF s = <<>> THEN 0
  ELSE (IF Head(s) = "=" THEN 1 ELSE 0) + CountEq(Tail(s))

\* the text before / after the first '=' parses on its own
LeftParses(s) ==
  AstParse(Strip(SplitEq(s)[1])).ok

RightParses(s) ==
  AstParse(Strip(SplitEq(s)[2])).ok

\* C8: an implicit text is accepted only if it has exactly one '=' and
\* both sides parse on their own; when a side does not parse the message
\* tells which one: the message for a left side that fails differs from
\* the message for a right side that fails.
C8_ImplicitSides ==
  (op = "validate_expression" /\ parse_expression_type(expression) = "implicit")
  => /\ result.valid
          => /\ CountEq(expression) = 1
             /\ LeftParses(expression)
             /\ RightParses(expression)
     /\ (~DenyHits(expression) # {} /\ ~LeftParses(expression) /\ RightParses(expression))
          => result.error # validate_expression(<<"x", "=">>).error

\* C9: validate_expression and parse_and_classify_expression never raise:
\* a failure comes back as (False, message), respectively as a record with
\* is_valid False and an error message, which for an internal exception
\* has type 'error', no variables, no parameters and no primary variable.
C9_NeverRaises ==
  /\ op = "validate_expression"
       => /\ ~result.raised
          /\ ~result.valid => result.error # NoError
          /\ result.valid => result.error = NoError
  /\ op = "parse_and_classify_expression"
       => /\ ~result.raised
          /\ ~result.is_valid => result.error # NoError
          /\ result.type = "error"
               => /\ ~result.is_valid
                  /\ result.variables = {}
                  /\ result.parameters = {}
                  /\ result.primary_variable = None

\* a text has been classified whose parsing raised inside the method: the
\* exception was caught and the error record returned
C9_Witness ==
  /\ op = "parse_and_classify_expression"
  /\ extract_variables(preprocess_expression(expression)).raised
  /\ result.type = "error"
  /\ ~result.raised

\* C10 as stated: off the implicit branch, is_valid of the classification
\* of a text equals the verdict of validate_expression on that text.
C10_ValidAsGiven ==
  (op = "parse_and_classify_expression" /\ result.type # "implicit")
  => (result.is_valid <=> validate_expression(expression).valid)

\* C10, amended: off the implicit branch, is_valid of the classification
\* of a text equals the verdict of validate_expression on the preprocessed
\* text, and the error is the message of that verdict when the text parses.
C10_ValidAsPreprocessed ==
  (op = "parse_and_classify_expression" /\ result.type # "implicit")
  => /\ result.is_valid <=> validate_expression(preprocess_expression(expression)).valid
     /\ result.type # "error"
          => result.error = validate_expression(preprocess_expression(expression)).error

\* a text that preprocessing changes ("2x" becomes "2*x") has been
\* classified valid although validate_expression rejects it as given
C10_Witness ==
  /\ op = "parse_and_classify_expression"
  /\ result.type = "explicit"
  /\ preprocess_expression(expression) # expression
  /\ result.is_valid
  /\ ~validate_expression(expression).valid

\* s has an '=' and none of '<', '>', "!="
ImplicitSyntax(s) ==
  HasChar(s, "=") /\ ~AssignmentWithComparison(s)

\* s has a bare call of x or y: the letter, blanks, "("
BareCall(s) ==
  \E i, j \in 1..Len(s) :
    /\ s[i] \in {"x", "y"}
    /\ j > i
    /\ s[j] = "("
    /\ \A h \in (i + 1)..(j - 1) : IsSpace(s[h])

\* C11: parse_and_classify_expression reports 'implicit' when the
\* normalised text has an '=' and no comparison operator, 'parametric'
\* when it is not implicit and the expression has a bare x( or y( call such
\* as 'x(t)', and 'explicit' otherwise.
C11_TypeBySurfaceSyntax ==
  (op = "parse_and_classify_expression" /\ result.type # "error")
  => result.type =
       IF ImplicitSyntax(preprocess_expression(expression)) THEN "implicit"
       ELSE IF BareCall(expression) THEN "parametric"
       ELSE "explicit"

\* C12: in every record parse_and_classify_expression returns, parameters
\* is variables without x, y and t, primary_variable is 'x' exactly when
\* 'x' is a variable, and no function name and no constant is a variable,
\* on the implicit branch (its fallback scan included) as on the explicit.
C12_VariablesAndParameters ==
  op = "parse_and_classify_expression"
  => /\ result.parameters = result.variables \ { <<"x">>, <<"y">>, <<"t">> }
     /\ result.primary_variable = (IF <<"x">> \in result.variables THEN <<"x">> ELSE None)
     /\ result.variables \cap (Range(MATH_FUNCTIONS) \cup Range(MATH_CONSTANTS)) = {}

\* C13: add_implicit_multiplication is idempotent: applied to its own
\* result it returns that result.
C13_Idempotent ==
  op = "add_implicit_multiplication"
  => add_implicit_multiplication(result) = result

\* C14: add_implicit_multiplication leaves the call f(x) of every known
\* function name f as it is.
C14_FunctionCallsKept ==
  (op = "add_implicit_multiplication" /\ expression \in FunctionCalls)
  => result = expression

\* the text is made of the variables x, y, z, digits, parentheses and '+'
VariableText(s) ==
  \A i \in 1..Len(s) : s[i] \in {"x", "y", "z", "2", "(", ")", "+"}

\* two factors stand side by side in r without a '*' between them
Juxtaposed(r) ==
  \E i \in 1..(Len(r) - 1) :
    \/ IsDigit(r[i]) /\ IsAlpha(r[i + 1])
    \/ IsAlpha(r[i]) /\ IsDigit(r[i + 1])
    \/ IsAlpha(r[i]) /\ IsAlpha(r[i + 1])
    \/ (IsDigit(r[i]) \/ IsAlpha(r[i]) \/ r[i] = ")") /\ r[i + 1] = "("
    \/ r[i] = ")" /\ (IsDigit(r[i + 1]) \/ IsAlpha(r[i + 1]))

\* C15: in the result of add_implicit_multiplication for a text of
\* variables, numbers and parentheses, no number, variable or ')' is
\* directly followed by a variable, a number or '(' without a '*'; a run
\* of juxtaposed variables such as 'xyz' comes out as 'x*y*z'.
C15_FactorsSeparated ==
  (op = "add_implicit_multiplication" /\ VariableText(expression))
  => ~Juxtaposed(result)

\* the text holds the constant name pi (typed, or as "&pi;" or "\pi")
HasPi(s) ==
  \E i \in 1..Len(s) : HasAt(s, i, <<"p","i">>)

\* C16: preprocess_expression keeps the meaning of a text whose normalised
\* form is accepted: a named constant of the text is still that one
\* identifier in the normalised text and is not extracted as variables.
C16_ConstantsKept ==
  (op = "preprocess_expression" /\ validate_expression(result).valid
     /\ HasPi(expression))
  => /\ <<"p","i">> \in WalkNames(AstParse(result).node)
     /\ extract_variables(result).vars \cap { <<"p">>, <<"i">> } = {}

\* the equation as the solver's patterns see it
NormalisedEquation(text) ==
  StrReplace(preprocess_expression(text), <<"*", "*">>, <<"^">>)

\* does pat match the whole of s, blanks at both ends aside
WholeMatch(pat, s) ==
  MatchAt(<<Cls("space", "*")>> \o pat \o <<Cls("space", "*"), EOS>>,
          1, s, 1, NoCaps, FALSE).ok

\* the whole text is x = c, y = c, x^2 + y^2 = r2 or x^2/a + y^2[/b] = 1
RecognisedShape(s) ==
  \/ WholeMatch(simple_pattern, s)
  \/ WholeMatch(circle_pattern \o <<Cls("space", "*"), Cls("digit", "+")>>, s)
  \/ WholeMatch(ellipse_pattern(TRUE), s)
  \/ WholeMatch(ellipse_pattern(FALSE), s)

\* C17: solve_implicit_equation returns a non-empty point series only when
\* the whole normalised equation is one of the recognised shapes; an
\* equation that merely contains such a shape as a fragment returns two
\* empty series.
C17_OnlyWholeShapes ==
  (op = "solve_implicit_equation" /\ ~RecognisedShape(NormalisedEquation(expression)))
  => (result.x_coords = <<>> /\ result.y_coords = <<>>)

\* the coordinate series the equation fixes, and the one it leaves free
FixedCoords(s, r) ==
  IF Group(s, ReFirst(simple_pattern, s, FALSE), 1) = <<"x">>
    THEN r.x_coords ELSE r.y_coords

FreeCoords(s, r) ==
  IF Group(s, ReFirst(simple_pattern, s, FALSE), 1) = <<"x">>
    THEN r.y_coords ELSE r.x_coords

\* C18: for an equation x = c (respectively y = c), solve_implicit_equation
\* returns exactly two points whose fixed coordinate equals c and whose free
\* coordinate takes the two extremes of x_range, whatever num_points is.
C18_LineSpansDomain ==
  (op = "solve_implicit_equation"
     /\ WholeMatch(simple_pattern, NormalisedEquation(expression)))
  => /\ Len(result.x_coords) = 2 /\ Len(result.y_coords) = 2
     /\ \A i \in 1..2 :
          FixedCoords(NormalisedEquation(expression), result)[i]
            = FloatOf(Group(NormalisedEquation(expression),
                            ReFirst(simple_pattern, NormalisedEquation(expression), FALSE), 2))
     /\ { FreeCoords(NormalisedEquation(expression), result)[i] : i \in 1..2 }
          = { x_range[1], x_range[2] }

\* the whole text is x^2 + y^2 = r2
WholeCircle(s) ==
  WholeMatch(circle_pattern \o <<Cls("space", "*"), Cls("digit", "+")>>, s)

\* r2 of a whole circle equation
RadiusSquared(s) ==
  FloatOf(Group(s, ReFirst(radius_pattern, s, FALSE), 1))

\* the result is num_points points (r cos a, r sin a), r = sqrt(r2)
OnCircle(s, r, n) ==
  /\ Len(r.x_coords) = n /\ Len(r.y_coords) = n
  /\ \A i \in 1..n :
       /\ r.x_coords[i].f = "cos" /\ r.y_coords[i].f = "sin"
       /\ r.x_coords[i].scale = FSqrt(RadiusSquared(s))
       /\ r.y_coords[i].scale = FSqrt(RadiusSquared(s))
       /\ r.x_coords[i].k = r.y_coords[i].k
       /\ r.x_coords[i].d = r.y_coords[i].d

\* C19 as stated: for x^2 + y^2 = r2, solve_implicit_equation returns
\* exactly num_points points on the circle of radius sqrt(r2), at num_points
\* distinct angles of the half-open interval [0, 2 pi): the angle 2 pi is not
\* sampled, so the last point does not repeat the first.
C19_HalfOpenTurn ==
  (op = "solve_implicit_equation" /\ WholeCircle(NormalisedEquation(expression)))
  => /\ OnCircle(NormalisedEquation(expression), result, num_points)
     /\ \A i \in 1..num_points : result.x_coords[i].k < result.x_coords[i].d
     /\ \A i, j \in 1..num_points :
          i # j => result.x_coords[i].k * result.x_coords[j].d
                     # result.x_coords[j].k * result.x_coords[i].d

\* C19 amended: for x^2 + y^2 = r2, solve_implicit_equation returns exactly
\* num_points points on the circle of radius sqrt(r2), at angles evenly
\* spaced over the closed interval [0, 2 pi]: with two points or more the
\* first angle is 0 and the last is 2 pi, so the last point repeats the first.
C19_ClosedTurn ==
  (op = "solve_implicit_equation" /\ WholeCircle(NormalisedEquation(expression)))
  => /\ OnCircle(NormalisedEquation(expression), result, num_points)
     /\ \A i \in 1..num_points :
          /\ result.x_coords[i].k = i - 1
          /\ result.x_coords[i].d = (IF num_points = 1 THEN 1 ELSE num_points - 1)
     /\ num_points >= 2
          => /\ result.x_coords[1].k = 0
             /\ result.x_coords[num_points].k = result.x_coords[num_points].d

C19_Witness ==
  /\ op = "solve_implicit_equation"
  /\ WholeCircle(NormalisedEquation(expression))
  /\ num_points = MaxAngles
  /\ Len(result.x_coords) = MaxAngles
  /\ result.x_coords[MaxAngles].k = result.x_coords[MaxAngles].d
  /\ result.x_coords[MaxAngles].scale = Num(2)

\* data.get('segments', []): the segments of a returned dictionary
Segments(data) ==
  IF "segments" \in DOMAIN data THEN data.segments ELSE <<>>

\* the points of segments k.. in order, a segment being [x |-> xs, y |-> ys]
RECURSIVE SegmentPoints(_, _)
SegmentPoints(segments, k) ==
  IF k > Len(segments)
    THEN <<>>
    ELSE [i \in 1..Len(segments[k].x) |-> [x |-> segments[k].x[i], y |-> segments[k].y[i]]]
         \o SegmentPoints(segments, k + 1)

\* neighbours inside one segment are neighbours among the samples
Unbroken(segments, samples) ==
  \A k \in 1..Len(segments) :
    \A i \in 1..(Len(segments[k].x) - 1) :
      \E j \in 1..(Len(samples) - 1) :
        samples[j] = segments[k].x[i] /\ samples[j + 1] = segments[k].x[i + 1]

\* C20: generate_graph_data returns its result as an ordered list of
\* segments that partitions the retained (finite) samples: every finite
\* sample appears in exactly one segment, in increasing domain order, and two
\* retained samples with a dropped sample between them are in different
\* segments.
C20_SegmentsPartition ==
  (op = "generate_graph_data" /\ ~result.raised)
  => /\ SegmentPoints(Segments(result.data), 1) = result.data.coordinates
     /\ Unbroken(Segments(result.data), x_values)

\* the value of y at every sample: a zero-dimensional result is the same
\* value at each of them
SampledValues(y, n) ==
  IF y.ndim = 0 THEN [i \in 1..n |-> y.a[1]] ELSE y.a

\* the samples with a finite value, in domain order
FiniteSamples(xs, ys) ==
  [i \in 1..Len(FinitePositions(ys, 1)) |->
     [x |-> xs[FinitePositions(ys, 1)[i]], y |-> ys[FinitePositions(ys, 1)[i]]]]

\* what C21 states of the dictionary data, ys being the values at the samples xs
GraphDataOf(data, xs, ys, n) ==
  /\ data.coordinates = FiniteSamples(xs, ys)
  /\ data.total_points = n
  /\ data.valid_points = Len(data.coordinates)
  /\ data.valid_points <= data.total_points
  /\ data.y_range = (IF data.coordinates = <<>>
                       THEN <<Num(0), Num(0)>>
                       ELSE <<NanMin(ys), NanMax(ys)>>)

\* C21: for every expression that evaluates, generate_graph_data's
\* coordinates are exactly the samples of the linearly spaced domain whose
\* value is finite, in domain order; total_points equals num_points,
\* valid_points equals the number of coordinates and never exceeds
\* total_points, and y_range is [min, max] of the retained values, or [0, 0]
\* when nothing is retained.
C21_FiniteSamplesInOrder ==
  (op = "generate_graph_data"
     /\ ~evaluate_expression(preprocess_expression(expression), x_values, params).raised)
  => /\ ~result.raised
     /\ x_values = Linspace(x_range[1], x_range[2], num_points)
     /\ GraphDataOf(result.data, x_values,
                    SampledValues(evaluate_expression(preprocess_expression(expression),
                                                      x_values, params),
                                  num_points),
                    num_points)

\* what get(k) is to return at the given time: the value of the latest set
\* of k that no delete or clear followed, while less than ttl seconds old
Expected(k, time) ==
  IF k \in DOMAIN history /\ time - history[k].at < history[k].ttl
    THEN history[k].value
    ELSE None

\* thread t is about to return from get
Returning(t) ==
  threads[t].pc = "release" /\ threads[t].method = "get"

\* C23: MemoryCache behaves as a map with per-entry expiry: get(k) returns
\* the value of the most recent set(k, v, ttl) if and only if no delete(k) or
\* clear followed that set and strictly less than ttl seconds have passed
\* since it, and None in every other case; a later set replaces value and
\* expiry, and an entry is expired at the instant now equals its expiry.
C23_MapWithExpiry ==
  \A t \in DOMAIN threads :
    Returning(t) => threads[t].ret = Expected(threads[t].key, threads[t].at)

C23_Witness ==
  \E t \in DOMAIN threads :
    /\ Returning(t)
    /\ threads[t].ret = None
    /\ threads[t].key \in DOMAIN history
    /\ history[threads[t].key].ttl > 0
    /\ threads[t].at = history[threads[t].key].at + history[threads[t].key].ttl

\* thread t is inside a `with self._lock:` block
InLock(t) ==
  threads[t].pc \notin {"idle", "failed"}

\* the dictionary holds exactly the sets that took effect and were not
\* deleted, cleared or removed as expired
CacheMatchesHistory ==
  /\ \A k \in DOMAIN cache :
       /\ k \in DOMAIN history
       /\ cache[k] = Item(history[k].value, history[k].at, history[k].ttl)
  /\ \A k \in DOMAIN history \ DOMAIN cache :
       history[k].at + history[k].ttl <= now

\* C25: with several threads calling the methods of one MemoryCache, every
\* method runs mutually exclusively under the lock: no two threads are inside
\* at once and none fails, a thread's get of a key it set itself returns the
\* value it stored, and no set, delete, clear or expiry removal is lost or
\* seen half-done.
C25_MutuallyExclusive ==
  /\ \A t, u \in DOMAIN threads : (t # u /\ InLock(t)) => ~InLock(u)
  /\ \A t \in DOMAIN threads : threads[t].pc \notin {"raised", "failed"}
  /\ \A t \in DOMAIN threads :
       (/\ Returning(t)
        /\ threads[t].key \in DOMAIN history
        /\ history[threads[t].key].by = t
        /\ threads[t].at - history[threads[t].key].at < history[threads[t].key].ttl)
       => threads[t].ret = history[threads[t].key].value
  /\ (\A t \in DOMAIN threads : ~InLock(t)) => CacheMatchesHistory

C25_Witness ==
  \E t, u \in DOMAIN threads :
    /\ t # u
    /\ Returning(t)
    /\ threads[t].ret # None
    /\ threads[t].key \in DOMAIN history
    /\ history[threads[t].key].by = t
    /\ threads[u].ops > 0
    /\ \E k \in DOMAIN cache \cap DOMAIN history : history[k].by = u

(***************************************************************************)
(* generate_cache_key: the md5 digest of the JSON text of                  *)
(* {expression, params or {}, x_range or (-30, 30)} with sorted keys.      *)
(* Python numbers keep their type (int or float), a dict keeps its         *)
(* insertion order, and None is a value of its own.                        *)
(***************************************************************************)

PyInt(v) ==
  [float |-> FALSE, v |-> v]

PyFloat(v) ==
  [float |-> TRUE, v |-> v]

PyNone ==
  [kind |-> "none", items |-> <<>>]

\* a dict as its items << name, value >> in insertion order
PyDict(items) ==
  [kind |-> "dict", items |-> items]

PyTuple(items) ==
  [kind |-> "tuple", items |-> items]

\* bool(value) of None, a dict or a tuple
Truthy(value) ==
  value.kind # "none" /\ value.items # <<>>

\* value or default
Or(value, default) ==
  IF Truthy(value) THEN value ELSE default

RECURSIVE NatText(_)
NatText(n) ==
  IF n < 10
    THEN << DigitSeq[n + 1] >>
    ELSE NatText(n \div 10) \o << DigitSeq[(n % 10) + 1] >>

\* int.__repr__
IntText(v) ==
  IF v < 0 THEN << "-" >> \o NatText(-v) ELSE NatText(v)

\* float.__repr__ of a float with an integral value
FloatText(v) ==
  IntText(v) \o << ".", "0" >>

\* json.dumps of a number
JsonNumber(n) ==
  IF n.float THEN FloatText(n.v) ELSE IntText(n.v)

\* json.dumps of a str without characters to escape
JsonString(s) ==
  << "\"" >> \o s \o << "\"" >>

\* ", ".join(texts)
RECURSIVE CommaJoin(_)
CommaJoin(texts) ==
  IF texts = <<>> THEN <<>>
  ELSE IF Len(texts) = 1 THEN texts[1]
  ELSE texts[1] \o << ",", " " >> \o CommaJoin(Tail(texts))

\* json.dumps of a tuple or list of numbers
JsonList(items) ==
  << "[" >> \o CommaJoin([i \in DOMAIN items |-> JsonNumber(items[i])]) \o << "]" >>

\* names compare as Python compares one-letter strings
NameBefore(a, b) ==
  (CHOOSE i \in 1..26 : LowerSeq[i] = a[1]) < (CHOOSE i \in 1..26 : LowerSeq[i] = b[1])

\* sort_keys=True: the items of a dict ordered by name
RECURSIVE SortKeys(_)
SortKeys(items) ==
  IF items = <<>> THEN <<>>
  ELSE LET first == CHOOSE i \in DOMAIN items :
                      \A j \in DOMAIN items : j = i \/ NameBefore(items[i][1], items[j][1])
       IN  << items[first] >>
           \o SortKeys([j \in 1..(Len(items) - 1) |-> IF j < first THEN items[j] ELSE items[j + 1]])

\* json.dumps of a dict of numbers, sort_keys=True
JsonDict(items) ==
  LET sorted == SortKeys(items)
  IN  << "{" >>
      \o CommaJoin([i \in DOMAIN sorted |->
                      JsonString(sorted[i][1]) \o << ":", " " >> \o JsonNumber(sorted[i][2])])
      \o << "}" >>

\* hashlib.md5(text).hexdigest(); the digest is taken to be free of
\* collisions, so a digest is identified by the text it digests
md5(text) ==
  << "md5" >> \o text

\* the default domain (-30, 30)
DefaultRange ==
  PyTuple(<< PyInt(-30), PyInt(30) >>)

generate_cache_key(e, p, range) ==
  LET key_data == [expression |-> e,
                   params |-> Or(p, PyDict(<<>>)),
                   x_range |-> Or(range, DefaultRange)]
      key_str == << "{" >>
                 \o JsonString(<< "e","x","p","r","e","s","s","i","o","n" >>) \o << ":", " " >>
                 \o JsonString(key_data.expression) \o << ",", " " >>
                 \o JsonString(<< "p","a","r","a","m","s" >>) \o << ":", " " >>
                 \o JsonDict(key_data.params.items) \o << ",", " " >>
                 \o JsonString(<< "x","_","r","a","n","g","e" >>) \o << ":", " " >>
                 \o JsonList(key_data.x_range.items)
                 \o << "}" >>
  IN  md5(key_str)

\* the expressions, parameter maps and domains the key is generated for
KeyExpressions ==
  { << "x" >>, << "a", "*", "x" >> }

KeyNumbers ==
  { PyInt(1), PyFloat(1), PyInt(2) }

KeyParams ==
  { PyNone, PyDict(<<>>) }
  \cup { PyDict(<< << << "a" >>, v >> >>) : v \in KeyNumbers }
  \cup { PyDict(<< << << "b" >>, v >> >>) : v \in KeyNumbers }
  \cup { PyDict(<< << << "a" >>, v >>, << << "b" >>, w >> >>) : v, w \in KeyNumbers }
  \cup { PyDict(<< << << "b" >>, w >>, << << "a" >>, v >> >>) : v, w \in KeyNumbers }

KeyRanges ==
  { PyNone, PyTuple(<<>>), DefaultRange,
    PyTuple(<< PyFloat(-30), PyFloat(30) >>),
    PyTuple(<< PyInt(-10), PyInt(10) >>),
    PyTuple(<< PyInt(-10), PyInt(30) >>) }

InitKey ==
  /\ expression \in KeyExpressions
  /\ params \in KeyParams
  /\ Fresh

\* a call of generate_cache_key(expression, params, x_range)
GenerateCacheKey ==
  /\ op = ""
  /\ op' = "generate_cache_key"
  /\ \E range \in KeyRanges :
       /\ x_range' = range
       /\ result' = generate_cache_key(expression, params, range)
  /\ UNCHANGED << expression, params, x_values, num_points, context, ne_calls,
                  compiled_expressions >>
  /\ UNCHANGED cache_vars

NextKey ==
  GenerateCacheKey

SpecKey ==
  InitKey /\ [][NextKey]_vars

\* Python's == on two numbers
NumberEq(a, b) ==
  a.v = b.v

\* Python's == on two dicts: the same names with equal values, in any order
DictEq(a, b) ==
  /\ { a[i][1] : i \in DOMAIN a } = { b[j][1] : j \in DOMAIN b }
  /\ \A i \in DOMAIN a, j \in DOMAIN b : a[i][1] = b[j][1] => NumberEq(a[i][2], b[j][2])

\* Python's == on two tuples of numbers
TupleEq(a, b) ==
  /\ Len(a) = Len(b)
  /\ \A i \in DOMAIN a : NumberEq(a[i], b[i])

\* the inputs denote the same request: params None stands for {}, x_range
\* None stands for (-30, 30)
SameInputs(e1, p1, r1, e2, p2, r2) ==
  /\ e1 = e2
  /\ DictEq((IF p1 = PyNone THEN PyDict(<<>>) ELSE p1).items,
            (IF p2 = PyNone THEN PyDict(<<>>) ELSE p2).items)
  /\ TupleEq((IF r1 = PyNone THEN DefaultRange ELSE r1).items,
             (IF r2 = PyNone THEN DefaultRange ELSE r2).items)

\* C24: generate_cache_key is a deterministic function of (expression,
\* params, x_range): equal inputs give equal keys, params None counts as {},
\* x_range None counts as (-30, 30), the insertion order of params does not
\* matter, and inputs that differ in the expression, a parameter name or
\* value, or x_range give different keys.
C24_KeyIdentifiesInputs ==
  op = "generate_cache_key" =>
    \A e \in KeyExpressions, p \in KeyParams, r \in KeyRanges :
      (generate_cache_key(e, p, r) = result)
        <=> SameInputs(e, p, r, expression, params, x_range)

(***************************************************************************)
(* The HTTP API in front of the evaluator: /evaluate, /batch-evaluate and  *)
(* /update-params.  Every handler is a coroutine that never suspends       *)
(* (MemoryCache.get and set do not wait for anything), so a request runs   *)
(* from start to end before the next one begins; the clock advances        *)
(* between requests.  Responses carry the time they were computed at in    *)
(* place of evaluation_time_ms.                                            *)
(***************************************************************************)

\* settings.CACHE_TTL, in seconds
CACHE_TTL ==
  3600

\* the ttl of the entries /update-params stores, in seconds
UPDATE_TTL ==
  300

\* the num_points /update-params computes with (1000 in the code; the
\* model keeps graphs small, the requests below ask for as few points)
UpdatePoints ==
  3

\* the requests answered in one behaviour
MaxRequests ==
  2

\* the clock advances by this many seconds at a time, up to MaxClock
TickSeconds ==
  1800

MaxClock ==
  3600

\* the number of expressions of a batch
MaxBatch ==
  2

ApiExpressions ==
  { << "x" >>, << "a", "*", "x" >>, << "x", "+" >> }

\* request.variables
ApiVariables ==
  { PyDict(<<>>), PyDict(<< << << "a" >>, PyFloat(2) >> >>) }

\* request.x_range; the second has its lower bound above its upper bound
ApiRanges ==
  { PyTuple(<< PyFloat(-1), PyFloat(1) >>), PyTuple(<< PyFloat(1), PyFloat(-1) >>) }

\* request.num_points
ApiPoints ==
  { UpdatePoints - 1, UpdatePoints }

\* request.expressions
ApiBatches ==
  UNION { [1..k -> ApiExpressions] : k \in 1..MaxBatch }

\* request.variables as the params of the evaluator
ParamsOf(variables) ==
  Params([id \in { variables.items[i][1] : i \in DOMAIN variables.items } |->
            LET i == CHOOSE j \in DOMAIN variables.items : variables.items[j][1] = id
            IN  Num(variables.items[i][2].v)])

\* request.x_range as the evaluator's floats
RangeOf(range) ==
  << Num(range.items[1].v), Num(range.items[2].v) >>

\* the calls of the evaluator the API can make
ApiCalls ==
  ApiExpressions \X ApiVariables \X ApiRanges \X ApiPoints

\* EvaluationResponse(expression=..., graph_data=...)
EvaluationResponse(e, graph_data, time) ==
  [expression |-> e, graph_data |-> graph_data, computed |-> time]

\* cache.set runs although the computation failed
StoredAlways(failed, c, key, item) ==
  With(c, key, item)

\* `await cache.set(cache_key, response, ttl)` is reached only when nothing
\* before it in the try block raised
Stored(failed, c, key, item) ==
  IF failed THEN c ELSE With(c, key, item)

\* `await cache.get(key)`: the value returned
CacheValue(c, key, time) ==
  IF key \in DOMAIN c /\ Unexpired(time, c[key]) THEN c[key].value ELSE None

\* `await cache.get(key)`: the dictionary afterwards (an expired item is deleted)
CacheAfterGet(c, key, time) ==
  IF key \in DOMAIN c /\ ~Unexpired(time, c[key]) THEN Without(c, key) ELSE c

\* the statements of a handler from generate_graph_data on: failed tells that
\* an exception left the try block, hit that the response came from the cache
Computed(e, key, graph, c, memo, time, ttl) ==
  [failed   |-> graph.raised,
   hit      |-> FALSE,
   response |-> IF graph.raised THEN None ELSE EvaluationResponse(e, graph.data, time),
   cache    |-> Stored(graph.raised, c, key,
                       Item(EvaluationResponse(e, graph.data, time), time, ttl)),
   memo     |-> Memoize(memo, graph.compiled)]

\* the statements of a handler from the cache lookup on
Looked(e, key, graph, c, memo, time, ttl) ==
  IF CacheValue(c, key, time) # None
    THEN [failed |-> FALSE, hit |-> TRUE, response |-> CacheValue(c, key, time),
          cache |-> c, memo |-> memo]
    ELSE Computed(e, key, graph, CacheAfterGet(c, key, time), memo, time, ttl)

\* evaluate_single_expression_async: the except clause builds
\* EvaluationResponse(graph_data=None), which the model class rejects
\* (graph_data is required), so a failure leaves the coroutine as an exception
evaluate_single_expression_async(e, v, range, n, c, memo, time) ==
  Looked(e, generate_cache_key(e, v, range), evaluations.graphs[<< e, v, range, n >>],
         c, memo, time, CACHE_TTL)

\* asyncio.gather(*tasks, return_exceptions=True): the coroutines run one
\* after the other, in the order of the expressions
RECURSIVE Gather(_, _, _, _, _, _, _)
Gather(es, v, range, n, c, memo, time) ==
  IF es = <<>>
    THEN [results |-> <<>>, cache |-> c, memo |-> memo]
    ELSE LET first == evaluate_single_expression_async(Head(es), v, range, n, c, memo, time)
             rest  == Gather(Tail(es), v, range, n, first.cache, first.memo, time)
         IN  [results |-> << first >> \o rest.results,
              cache |-> rest.cache, memo |-> rest.memo]

\* what the client receives; outcomes records, per expression, what the
\* handler obtained for it
Http(status, body, outcomes) ==
  [status |-> status, body |-> body, outcomes |-> outcomes]

Outcome(r) ==
  [failed |-> r.failed, hit |-> r.hit]

\* the loop over the gathered results: for an exception it builds
\* EvaluationResponse(graph_data=None), which raises inside the try block
BatchResponse(es, results) ==
  IF \E i \in DOMAIN results : results[i].failed
    THEN Http(400, <<>>, [i \in DOMAIN results |-> Outcome(results[i])])
    ELSE Http(200,
              [results |-> [i \in DOMAIN results |-> results[i].response],
               total_expressions |-> Len(es)],
              [i \in DOMAIN results |-> Outcome(results[i])])

\* the coordinates /evaluate builds from zip(x_values, y_values); iterating
\* a zero-dimensional y_values raises
EvaluateExplicit(e, range, n, xs, y) ==
  IF y.raised \/ y.ndim = 0
    THEN [failed |-> TRUE, response |-> None, memo |-> y.compiled]
    ELSE LET valid == FinitePositions(y.a, 1)
             coordinates == [i \in 1..Len(valid) |-> [x |-> xs[valid[i]], y |-> y.a[valid[i]]]]
         IN  [failed |-> FALSE,
              response |-> [expression |-> e,
                            graph_data |->
                              GraphData(coordinates, n, Len(valid), range,
                                        IF Len(valid) > 0 THEN << NanMin(y.a), NanMax(y.a) >>
                                                          ELSE << Num(0), Num(1) >>)],
              memo |-> y.compiled]

\* the branch of /evaluate for implicit equations (the solver returns
\* finite coordinates only; y_range is left out of the model for them)
EvaluateImplicit(e, range, n, s) ==
  IF s.raised
    THEN [failed |-> TRUE, response |-> None, memo |-> <<>>]
    ELSE [failed |-> FALSE,
          response |-> [expression |-> e,
                        graph_data |->
                          GraphData([i \in 1..Len(s.x_coords) |->
                                       [x |-> s.x_coords[i], y |-> s.y_coords[i]]],
                                    n, Len(s.x_coords), range, <<>>)],
          memo |-> <<>>]

\* the try block of /evaluate
EvaluateClassified(e, v, range, n, classification) ==
  IF ~classification.is_valid
    THEN [failed |-> TRUE, response |-> None, memo |-> <<>>]
  ELSE IF classification.type = "implicit"
    THEN EvaluateImplicit(e, range, n, solve_implicit_equation(e, range, n, v))
  ELSE EvaluateExplicit(e, range, n, Linspace(range[1], range[2], n),
                        evaluate_expression(classification.processed_expression,
                                            Linspace(range[1], range[2], n), v))

\* The evaluator is a function of its arguments (its memo is written and
\* never read): what it yields for the calls of the API is worked out once.
\*   graphs       evaluator.generate_graph_data(expression, x_range, num_points, params)
\*   validations  evaluator.parser.validate_expression(expression)
\*   evaluated    the try block of /evaluate
Evaluations ==
  [graphs |-> [c \in ApiCalls |->
                 generate_graph_data(c[1], RangeOf(c[3]), c[4], ParamsOf(c[2]))],
   validations |-> [e \in ApiExpressions |-> validate_expression(e)],
   evaluated |-> [c \in ApiCalls |->
                    EvaluateClassified(c[1], ParamsOf(c[2]), RangeOf(c[3]), c[4],
                                       parse_and_classify_expression(c[1]))]]

InitApi ==
  /\ expression = <<>>
  /\ params = PyDict(<<>>)
  /\ x_values = <<>> /\ x_range = <<>> /\ num_points = 0
  /\ op = "" /\ result = None /\ context = <<>> /\ ne_calls = <<>>
  /\ compiled_expressions = <<>>
  /\ cache = <<>>
  /\ now = 0
  /\ lock = 0
  /\ threads = <<>>
  /\ history = <<>>
  /\ served = 0
  /\ evaluations = Evaluations

\* a request arrives
Request(name, e, v, range, n) ==
  /\ served < MaxRequests
  /\ served' = served + 1
  /\ op' = name
  /\ expression' = e
  /\ params' = v
  /\ x_range' = range
  /\ num_points' = n
  /\ UNCHANGED << x_values, context, ne_calls, now, lock, threads, history, evaluations >>

\* POST /api/batch-evaluate
BatchEvaluate ==
  \E es \in ApiBatches, v \in ApiVariables, range \in ApiRanges, n \in ApiPoints :
    LET gathered == Gather(es, v, range, n, cache, compiled_expressions, now) IN
    /\ Request("batch-evaluate", es, v, range, n)
    /\ result' = BatchResponse(es, gathered.results)
    /\ cache' = gathered.cache
    /\ compiled_expressions' = gathered.memo

\* the statements of update_parameters after the validation
UpdateValidated(e, verdict, r) ==
  IF verdict.raised \/ ~verdict.valid
    THEN [failed |-> TRUE, hit |-> FALSE, response |-> None]
    ELSE r

\* POST /api/update-params
UpdateParameters ==
  \E e \in ApiExpressions, v \in ApiVariables, range \in ApiRanges :
    LET verdict == evaluations.validations[e]
        looked == Looked(e, generate_cache_key(e, v, range),
                         evaluations.graphs[<< e, v, range, UpdatePoints >>],
                         cache, compiled_expressions, now, UPDATE_TTL)
        r == UpdateValidated(e, verdict, looked)
    IN
    /\ Request("update-params", e, v, range, UpdatePoints)
    /\ result' = (IF r.failed THEN Http(400, <<>>, << Outcome(r) >>)
                              ELSE Http(200, r.response, << Outcome(r) >>))
    /\ cache' = (IF verdict.raised \/ ~verdict.valid THEN cache ELSE looked.cache)
    /\ compiled_expressions' = (IF verdict.raised \/ ~verdict.valid
                                  THEN compiled_expressions ELSE looked.memo)

\* POST /api/evaluate
Evaluate ==
  \E e \in ApiExpressions, v \in ApiVariables, range \in ApiRanges, n \in ApiPoints :
    LET r == evaluations.evaluated[<< e, v, range, n >>] IN
    /\ Request("evaluate", e, v, range, n)
    /\ result' = (IF r.failed THEN Http(400, <<>>, << [failed |-> TRUE, hit |-> FALSE] >>)
                              ELSE Http(200, r.response, << [failed |-> FALSE, hit |-> FALSE] >>))
    /\ compiled_expressions' = Memoize(compiled_expressions, r.memo)
    /\ UNCHANGED cache

\* time passes between two requests
Elapse ==
  /\ now + TickSeconds <= MaxClock
  /\ now' = now + TickSeconds
  /\ UNCHANGED << expression, params, x_values, x_range, num_points, op, result,
                  context, ne_calls, compiled_expressions, cache, lock, threads,
                  history, served, evaluations >>

NextApi ==
  \/ BatchEvaluate
  \/ UpdateParameters
  \/ Evaluate
  \/ Elapse

SpecApi ==
  InitApi /\ [][NextApi]_vars

\* C22: POST /api/batch-evaluate answers 200 with exactly one result per
\* submitted expression, in submission order, even when some expressions
\* fail to evaluate: a failing expression never turns the whole batch into
\* an error response.
C22_BatchAnswersEach ==
  op = "batch-evaluate" =>
    /\ result.status = 200
    /\ Len(result.body.results) = Len(expression)
    /\ \A i \in DOMAIN expression : result.body.results[i].expression = expression[i]

\* the lower bound of the x_range lies above its upper bound
Reversed(range) ==
  range.items[1].v > range.items[2].v

\* C26: a request whose x_range has its lower bound greater than its upper
\* bound is rejected as invalid: the endpoint answers 400, the computation
\* raises, and no coordinates are produced for it.
C26_ReversedRangeRejected ==
  (op # "" /\ Reversed(x_range)) =>
    /\ result.status = 400
    /\ \A i \in DOMAIN result.outcomes : result.outcomes[i].failed

\* what a fresh generate_graph_data yields for expression e of the request
\* being answered
FreshGraph(e) ==
  evaluations.graphs[<< e, params, x_range, num_points >>].data

\* C28: whenever /batch-evaluate or /update-params answers from the cache,
\* the response served equals what a fresh computation for that very request
\* would produce; in particular its total_points is the request's num_points
\* (the fixed number of points for /update-params).
C28_CacheHitIsFresh ==
  /\ (op = "update-params" /\ result.status = 200 /\ result.outcomes[1].hit) =>
       /\ result.body.graph_data = FreshGraph(expression)
       /\ result.body.graph_data.total_points = UpdatePoints
  /\ (op = "batch-evaluate" /\ result.status = 200) =>
       \A i \in DOMAIN expression :
         result.outcomes[i].hit =>
           /\ result.body.results[i].graph_data = FreshGraph(expression[i])
           /\ result.body.results[i].graph_data.total_points = num_points

\* the entry under key k holds the response of a successful computation for
\* an expression, variables and x_range with that key
ComputedForKey(k, response) ==
  \E c \in ApiCalls :
    /\ k = generate_cache_key(c[1], c[2], c[3])
    /\ ~evaluations.graphs[c].raised
    /\ response.expression = c[1]
    /\ response.graph_data = evaluations.graphs[c].data

\* the expressions of the request being answered, with their outcomes
Answered ==
  IF op' = "batch-evaluate" THEN expression' ELSE << expression' >>

\* a request is answered in this step, and the evaluation of every
\* expression of it that failed left the cache entry of its key as it was
\* (and there is none)
FailureLeavesCache ==
  (served' # served /\ op' \in {"batch-evaluate", "update-params"}) =>
    /\ \A i \in DOMAIN Answered :
         result'.outcomes[i].failed =>
           LET k == generate_cache_key(Answered[i], params', x_range') IN
           /\ k \notin DOMAIN cache'
           /\ k \notin DOMAIN cache \/ ~Unexpired(now, cache[k])
    /\ (\A i \in DOMAIN Answered : result'.outcomes[i].failed) => cache' = cache

\* C29: only successful computations are cached: every cache entry holds an
\* EvaluationResponse whose graph data was computed for that entry's key,
\* and a failing validation or evaluation leaves the cache unchanged, so a
\* later identical request is computed again and never served a failure.
C29_OnlySuccessesCached ==
  /\ [](\A k \in DOMAIN cache : ComputedForKey(k, cache[k].value))
  /\ [][FailureLeavesCache]_vars

C29_Witness ==
  /\ op = "update-params"
  /\ served = MaxRequests
  /\ result.status = 400
  /\ cache # <<>>
  /\ generate_cache_key(expression, params, x_range) \notin DOMAIN cache

\* C30: every response returned by /update-params was computed at most 300
\* seconds before it is served, whatever requests to /update-params or
\* /batch-evaluate preceded it.
C30_UpdateIsRecent ==
  (op = "update-params" /\ result.status = 200) =>
    now - result.body.computed <= UPDATE_TTL

(***************************************************************************)
(* The module-level evaluator shared by concurrent requests.  Its only     *)
(* attribute that is ever assigned after construction is                   *)
(* parser.compiled_expressions; every other name a method uses is a local  *)
(* of the call.  Each thread calls the methods one after the other and     *)
(* runs evaluate_expression in three stretches: up to the validation, the  *)
(* compilation (the one statement that writes the memo), and the rest.     *)
(***************************************************************************)

\* the calls each thread makes
MaxSharedCalls ==
  2

SharedExpressions ==
  { << "x", "^", "2" >>, << "a", "*", "x" >>, << "x", "+" >> }

SharedParams ==
  { Params(<<>>), Params([id \in { << "a" >> } |-> Num(2)]) }

SharedSamples ==
  << Num(-1), Num(2) >>

\* a thread between two calls
Waiting(calls) ==
  [pc |-> "idle", method |-> "", expression |-> <<>>, p |-> NoParams,
   compiled_expr |-> <<>>, ret |-> None, calls |-> calls]

\* self.compiled_expressions = {expr_hash: compiled_expr}: the dictionary is
\* replaced by one that holds the new entry only
Rebound(memo, key, compiled_expr) ==
  With(<<>>, key, compiled_expr)

\* self.compiled_expressions[expr_hash] = compiled_expr (a text stands for
\* its hash)
Assigned(memo, key, compiled_expr) ==
  With(memo, key, compiled_expr)

InitShared ==
  /\ expression = <<>>
  /\ params = NoParams
  /\ x_values = SharedSamples /\ x_range = <<>> /\ num_points = 0
  /\ op = "" /\ result = None /\ context = <<>> /\ ne_calls = <<>>
  /\ compiled_expressions = <<>>
  /\ cache = <<>>
  /\ now = 0
  /\ lock = 0
  /\ threads = [t \in 1..MaxThreads |-> Waiting(0)]
  /\ history = <<>>
  /\ served = 0
  /\ evaluations = <<>>

\* thread t calls evaluator.parser.validate_expression(e)
SharedValidate(t) ==
  /\ threads[t].pc = "idle" /\ threads[t].calls < MaxSharedCalls
  /\ \E e \in SharedExpressions :
       threads' = [threads EXCEPT ![t] =
                     [@ EXCEPT !.pc = "done", !.method = "validate_expression",
                               !.expression = e, !.ret = validate_expression(e)]]
  /\ UNCHANGED compiled_expressions

\* thread t calls evaluator.parse_and_classify_expression(e)
SharedClassify(t) ==
  /\ threads[t].pc = "idle" /\ threads[t].calls < MaxSharedCalls
  /\ \E e \in SharedExpressions :
       threads' = [threads EXCEPT ![t] =
                     [@ EXCEPT !.pc = "done", !.method = "parse_and_classify_expression",
                               !.expression = e,
                               !.ret = parse_and_classify_expression(e)]]
  /\ UNCHANGED compiled_expressions

\* thread t calls evaluator.evaluate_expression(e, x_values, p) and runs it
\* up to the validation; an invalid expression raises
SharedEvaluate(t) ==
  /\ threads[t].pc = "idle" /\ threads[t].calls < MaxSharedCalls
  /\ \E e \in SharedExpressions, p \in SharedParams :
       threads' = [threads EXCEPT ![t] =
                     IF validate_expression(e).valid
                       THEN [@ EXCEPT !.pc = "validated", !.method = "evaluate_expression",
                                      !.expression = e, !.p = p]
                       ELSE [@ EXCEPT !.pc = "done", !.method = "evaluate_expression",
                                      !.expression = e, !.p = p,
                                      !.ret = Returned(Raised(<<>>, <<>>))]]
  /\ UNCHANGED compiled_expressions

\* compiled_expr = self.parser.compile_expression(expression)
SharedCompile(t) ==
  /\ threads[t].pc = "validated"
  /\ compiled_expressions' =
       Assigned(compiled_expressions, threads[t].expression,
                compile_expression(threads[t].expression))
  /\ threads' = [threads EXCEPT ![t] =
                   [@ EXCEPT !.pc = "compiled",
                             !.compiled_expr = compile_expression(threads[t].expression)]]

\* the statements of evaluate_expression after the compilation
SharedReturn(t) ==
  /\ threads[t].pc = "compiled"
  /\ threads' = [threads EXCEPT ![t] =
                   [@ EXCEPT !.pc = "done",
                             !.ret = Returned(EvaluateCompiled(
                                       threads[t].expression, threads[t].p,
                                       threads[t].compiled_expr,
                                       BaseContext(x_values, threads[t].p),
                                       extract_variables(threads[t].expression)))]]
  /\ UNCHANGED compiled_expressions

\* the caller has its result; the thread goes on to its next call
SharedNextCall(t) ==
  /\ threads[t].pc = "done"
  /\ threads' = [threads EXCEPT ![t] = Waiting(threads[t].calls + 1)]
  /\ UNCHANGED compiled_expressions

NextShared ==
  \E t \in 1..MaxThreads :
    /\ \/ SharedValidate(t)
       \/ SharedClassify(t)
       \/ SharedEvaluate(t)
       \/ SharedCompile(t)
       \/ SharedReturn(t)
       \/ SharedNextCall(t)
    /\ UNCHANGED << expression, params, x_values, x_range, num_points, op, result,
                    context, ne_calls, cache, now, lock, history, served, evaluations >>

SpecShared ==
  InitShared /\ [][NextShared]_vars

\* what the call of thread t returns on an evaluator nobody has used before
OnFreshEvaluator(t) ==
  CASE threads[t].method = "validate_expression" ->
         validate_expression(threads[t].expression)
    [] threads[t].method = "parse_and_classify_expression" ->
         parse_and_classify_expression(threads[t].expression)
    [] OTHER ->
         Returned(evaluate_expression(threads[t].expression, x_values, threads[t].p))

\* the memo changes only in the compilation of an evaluate_expression call,
\* which adds or rewrites the entry of its expression and keeps the others
MemoOnlyGrows ==
  compiled_expressions' # compiled_expressions =>
    \E t \in DOMAIN threads :
      /\ threads[t].method = "evaluate_expression"
      /\ threads[t].pc = "validated" /\ threads'[t].pc = "compiled"
      /\ DOMAIN compiled_expressions' = DOMAIN compiled_expressions \cup { threads[t].expression }
      /\ \A k \in DOMAIN compiled_expressions \ { threads[t].expression } :
           compiled_expressions'[k] = compiled_expressions[k]

\* C27: the shared evaluator holds no mutable state other than the compile
\* memo: parse_and_classify_expression and validate_expression leave all
\* state unchanged, evaluate_expression only adds or rewrites memo entries,
\* and under any interleaving of calls from concurrent requests each call
\* returns what it would return on a fresh evaluator.
C27_ResultsIgnoreHistory ==
  /\ [](\A t \in DOMAIN threads :
          threads[t].pc = "done" => threads[t].ret = OnFreshEvaluator(t))
  /\ [][MemoOnlyGrows]_vars

C27_Witness ==
  \E t, u \in DOMAIN threads :
    /\ t # u
    /\ threads[t].pc = "done" /\ threads[t].method = "evaluate_expression"
    /\ ~threads[t].ret.raised
    /\ threads[t].calls > 0
    /\ threads[u].pc = "compiled"
    /\ threads[u].expression # threads[t].expression
    /\ DOMAIN compiled_expressions = SharedExpressions \ { << "x", "+" >> }

====
